---- MODULE Spec2Model ----
(***************************************************************************)
(* SmartTrip itinerary optimizer: the permutation optimizer, the timeline  *)
(* simulator, the travel time estimator, the impact scorer, the reference  *)
(* data store and the POST /api/optimize handler with its result cache.    *)
(* Further specifications take one component on its own: SpecThreads the   *)
(* initialisation of the data store by concurrent requests, SpecCache the  *)
(* CacheStore operations, SpecRate the rate limiter, SpecRateThreads the   *)
(* rate limiter entered by concurrent requests, SpecFn the lookups, the    *)
(* estimator, the scorer and the optimizer as functions of their           *)
(* arguments.                                                              *)
(*                                                                         *)
(* Numbers are fixed point.  Coordinates are in 1e-5 degree, distances in  *)
(* metres or 1e-5 km, clock values in tenths of a minute since 00:00 of    *)
(* the request date, congestion and discomfort indices in 1e-3, scores in  *)
(* 1e-4.  Python's round() is modelled as round-half-even on the exact     *)
(* decimal value.                                                          *)
(***************************************************************************)
EXTENDS Integers, Sequences, FiniteSets, TLC

VARIABLES
    pool,          \* the family of requests this run draws from
    calls,         \* number of requests started so far
    now,           \* time.time(), in seconds
    pc,            \* "idle", "call" (optimize_itinerary entered), "loop", "returned"
    via,           \* "engine" (optimize_itinerary called directly), "api" (POST
                   \* /api/optimize) or "sim" (simulate_timeline called directly)
    api_req,       \* Some(OptimizeRequest of the API request being served)
    args,          \* Some(arguments of the current optimize_itinerary call)
    valid_ids,     \* optimizer.py valid_ids
    perm,          \* Some(index tuple of the next element of all_perms)
    k,             \* iterations of the permutation loop completed
    num_perms,     \* optimizer.py num_perms
    best_score,    \* optimizer.py best_score
    best_legs,     \* optimizer.py best_legs (<<>> for None)
    best_itinerary_score,
    best_perm,     \* optimizer.py best_perm (<<>> for None)
    all_scores,    \* optimizer.py all_scores
    result,        \* Some(OptimizationResult returned)
    raised,        \* TRUE when optimize_itinerary ended by an exception
    response,      \* Some(HTTP response of the last API request)
    cache,         \* CacheStore._store
    sims,          \* number of simulate_timeline calls made by the current call
    sim_out,       \* Some(value returned by a direct call of simulate_timeline)
    first,         \* Some([args, result, later]) of the first optimize_itinerary call
                   \* that returned; later: a call with other arguments returned since
    _store,        \* data_loader._store: Some(number of the DataStore instance)
    _initialized,  \* app._initialized
    constructed,   \* number of DataStore() constructions so far
    _hits,         \* CacheStore._hits
    _misses,       \* CacheStore._misses
    stored_by,     \* for each cache key, the request whose response cache.set
                   \* stored under it last
    _requests,     \* RateLimiter._requests: client address -> list of timestamps
    recent,        \* the limiter taken alone: for each client, the times of its
                   \* admitted requests that are less than 60 s old
    decision,      \* the limiter taken alone: Some([client, allowed, before]) of
                   \* the request just decided; before: Len(recent[client]) then
    fn_in,         \* a lookup or the estimator called on its own: Some(arguments)
    fn_out,        \* Some(value returned for fn_in)
    last_set,      \* CacheStore taken alone: for each key, Some([value, at, ttl])
                   \* of the last set() no delete() or clear() came after
    got,           \* CacheStore taken alone: Some([key, at, value]) of the get()
                   \* that has just returned
    thr,           \* the request threads that start together on a fresh process:
                   \* thr[t] = [pc, inst, got]
    rl             \* the request threads of one client inside is_allowed:
                   \* rl[t] = [pc, now, kept]

locals == <<valid_ids, perm, k, num_perms, best_score, best_legs,
            best_itinerary_score, best_perm, all_scores, sims>>

\* the reference data singleton and its initialisation flag
store_vars == <<_store, _initialized, constructed>>

\* the cache's counters, and who wrote its entries
cache_aux == <<_hits, _misses, stored_by>>

\* the variables of the components the request actions below do not touch
others == <<thr, rl, last_set, got, recent, decision, fn_in, fn_out>>

vars == <<pool, calls, now, pc, via, api_req, args, result, raised, response, cache,
          sim_out, first, locals, store_vars, cache_aux, _requests, others>>

\* An optional value is <<>> (Python None) or <<x>>
Nothing == <<>>
Some(x) == <<x>>
\* a table cell that is absent
Missing == -1
\* float("inf")
Inf == 1000000000

\* ------------------------------------------------------------------ bounds

MaxLen == 3
MaxCalls == 3
MaxNow == 901
MaxThreads == 3
MaxGets == 2
MaxOther == 1

\* ------------------------------------------------------------- arithmetic

Min(a, b) == IF a <= b THEN a ELSE b
Max(a, b) == IF a >= b THEN a ELSE b
Abs(a) == IF a < 0 THEN -a ELSE a

\* Python round(): nearest, ties to even, for num >= 0 and den > 0
RoundDiv(num, den) ==
    LET q == num \div den
        r == num % den
    IN  IF 2 * r > den THEN q + 1
        ELSE IF 2 * r < den THEN q
        ELSE IF q % 2 = 0 THEN q ELSE q + 1

\* floor of the square root of n by Newton's iteration from a start x with
\* x * x >= n
RECURSIVE IsqrtFrom(_, _)
IsqrtFrom(n, x) ==
    LET y == (x + n \div x) \div 2
    IN  IF y >= x THEN x ELSE IsqrtFrom(n, y)

RECURSIVE SumSeq(_)
SumSeq(s) == IF s = <<>> THEN 0 ELSE Head(s) + SumSeq(Tail(s))

RECURSIVE MaxSeq(_)
MaxSeq(s) == IF Len(s) = 1 THEN s[1] ELSE Max(Head(s), MaxSeq(Tail(s)))

RECURSIVE MinSeq(_)
MinSeq(s) == IF Len(s) = 1 THEN s[1] ELSE Min(Head(s), MinSeq(Tail(s)))

\* ------------------------------------------------- reference data (tables)

\* str.lower() on the city names the requests use
Lower(city) ==
    CASE city = "Madrid" -> "madrid"
      [] city = "MADRID" -> "madrid"
      [] city = "Seville" -> "seville"
      [] OTHER -> city

\* str.capitalize()
Capitalize(city) ==
    CASE city = "madrid" -> "Madrid"
      [] city = "seville" -> "Seville"
      [] OTHER -> city

\* DataStore.attractions_by_id
attractions_by_id ==
    [a1 |-> [name |-> "Prado", city |-> "Madrid",
             latitude |-> 4041380, longitude |-> -369210,
             average_visit_duration |-> 120, category |-> "indoor",
             heat_sensitive |-> FALSE, peak_hours |-> {11, 12, 13},
             ideal_time_start |-> 10, ideal_time_end |-> 18,
             priority_score |-> 98],
     a2 |-> [name |-> "Retiro", city |-> "Madrid",
             latitude |-> 4041530, longitude |-> -368450,
             average_visit_duration |-> 90, category |-> "outdoor",
             heat_sensitive |-> TRUE, peak_hours |-> {12, 13, 17, 18},
             ideal_time_start |-> 9, ideal_time_end |-> 20,
             priority_score |-> 92],
     a3 |-> [name |-> "Bernabeu", city |-> "Madrid",
             latitude |-> 4045310, longitude |-> -368830,
             average_visit_duration |-> 75, category |-> "landmark",
             heat_sensitive |-> FALSE, peak_hours |-> {} ,
             ideal_time_start |-> 10, ideal_time_end |-> 19,
             priority_score |-> 85],
     a4 |-> [name |-> "Royal Palace", city |-> "Madrid",
             latitude |-> 4041800, longitude |-> -371430,
             average_visit_duration |-> 100, category |-> "indoor",
             heat_sensitive |-> FALSE, peak_hours |-> {10, 11, 12},
             ideal_time_start |-> 10, ideal_time_end |-> 17,
             priority_score |-> 95],
     a5 |-> [name |-> "Palace Gardens", city |-> "Madrid",
             latitude |-> 4041800, longitude |-> -371430,
             average_visit_duration |-> 100, category |-> "indoor",
             heat_sensitive |-> FALSE, peak_hours |-> {10, 11, 12},
             ideal_time_start |-> 10, ideal_time_end |-> 17,
             priority_score |-> 95],
     a6 |-> [name |-> "Plaza Mayor", city |-> "Madrid",
             latitude |-> 4041550, longitude |-> -370740,
             average_visit_duration |-> 45, category |-> "landmark",
             heat_sensitive |-> TRUE, peak_hours |-> {13, 14, 20},
             ideal_time_start |-> 9, ideal_time_end |-> 22,
             priority_score |-> 90],
     a7 |-> [name |-> "San Miguel Market", city |-> "Madrid",
             latitude |-> 4041540, longitude |-> -370890,
             average_visit_duration |-> 50, category |-> "market",
             heat_sensitive |-> FALSE, peak_hours |-> {13, 14, 21},
             ideal_time_start |-> 11, ideal_time_end |-> 23,
             priority_score |-> 105],
     a8 |-> [name |-> "Debod Temple", city |-> "Madrid",
             latitude |-> 4042400, longitude |-> -371780,
             average_visit_duration |-> 40, category |-> "outdoor",
             heat_sensitive |-> FALSE, peak_hours |-> {20, 21},
             ideal_time_start |-> 10, ideal_time_end |-> 21,
             priority_score |-> 80]]

KnownIds == DOMAIN attractions_by_id

\* DataStore._zones
zones(city_lower) ==
    IF city_lower = "madrid"
    THEN << [zone |-> "Central", lat |-> 4041680, lon |-> -370380, radius_m |-> 1500],
            [zone |-> "Tourist Cluster", lat |-> 4041400, lon |-> -369000, radius_m |-> 1200],
            [zone |-> "Business", lat |-> 4045000, lon |-> -369000, radius_m |-> 2000] >>
    ELSE << >>

\* DataStore._traffic_lookup: the value in 1e-3, or Missing for an absent key
traffic_lookup(city_lower, zone, day_type, hour) ==
    IF city_lower # "madrid" THEN Missing
    ELSE IF zone = "Central" THEN
        (IF day_type = "weekday"
         THEN (CASE hour \in 7..9 -> 780
                 [] hour \in 17..20 -> 720
                 [] hour \in 10..16 -> 520
                 [] OTHER -> 180)
         ELSE (CASE hour \in 11..20 -> 450
                 [] OTHER -> 150))
    ELSE IF zone = "Tourist Cluster" THEN
        (IF day_type = "weekday"
         THEN (CASE hour \in 7..9 -> 610
                 [] hour \in 10..20 -> 565
                 [] OTHER -> 120)
         ELSE (CASE hour \in 10..21 -> 640
                 [] OTHER -> 140))
    ELSE IF zone = "Business" /\ day_type = "weekday" /\ hour \in 6..21 THEN
        (CASE hour \in 7..9 -> 900
           [] hour \in 17..20 -> 850
           [] OTHER -> 400)
    ELSE Missing

\* DataStore._weather_lookup: Nothing for an absent key
weather_lookup(city_lower, month, hour) ==
    IF city_lower = "madrid" /\ month = 7 THEN
        Some(CASE hour \in 12..17 -> [temperature |-> 340, heat_discomfort |-> 620]
               [] hour \in 9..11 -> [temperature |-> 270, heat_discomfort |-> 310]
               [] hour \in 18..21 -> [temperature |-> 300, heat_discomfort |-> 450]
               [] OTHER -> [temperature |-> 220, heat_discomfort |-> 50])
    ELSE IF city_lower = "madrid" /\ month = 6 THEN
        Some(CASE hour \in 12..17 -> [temperature |-> 290, heat_discomfort |-> 350]
               [] hour \in 9..11 -> [temperature |-> 230, heat_discomfort |-> 100]
               [] OTHER -> [temperature |-> 190, heat_discomfort |-> 0])
    ELSE Nothing

\* DataStore._seasonal (1e-2), Missing for an unlisted month
seasonal(month) ==
    CASE month = 7 -> 90
      [] month = 6 -> 105
      [] month = 8 -> 120
      [] OTHER -> Missing

\* DataStore.venues
venues ==
    << [city |-> "Madrid", affected_zone |-> "Business",
        typical_event_days |-> {"Saturday", "Sunday"}, congestion_multiplier |-> 140],
       [city |-> "Madrid", affected_zone |-> "Business",
        typical_event_days |-> {"Saturday", "Tuesday"}, congestion_multiplier |-> 125],
       [city |-> "Madrid", affected_zone |-> "Tourist Cluster",
        typical_event_days |-> {"Saturday"}, congestion_multiplier |-> 115] >>

\* ------------------------------------------------ data_loader.py lookups

\* cos(latitude) in 1e-3 for the latitude bands of the tables
CosMilli(lat) == IF lat < 3900000 THEN 794 ELSE 762

\* haversine_km, in metres: at city scale the great-circle distance is the
\* planar distance of the two arcs (1e-5 degree of latitude = 1.112 m)
haversine_km(lat1, lon1, lat2, lon2) ==
    LET dy == (Abs(lat2 - lat1) * 1112) \div 1000
        dx == (Abs(lon2 - lon1) * ((1112 * CosMilli(lat1)) \div 1000)) \div 1000
    IN  IF dx + dy = 0 THEN 0 ELSE IsqrtFrom(dx * dx + dy * dy, dx + dy)

\* DataStore.get_attraction: Some(record), or Nothing
get_attraction(attraction_id) ==
    IF attraction_id \in KnownIds THEN Some(attractions_by_id[attraction_id]) ELSE Nothing

\* DataStore.get_traffic_index
\* A faulty get_traffic_index: no fallback to the Central zone
TrafficIndexNoFallback(city, zone, day_type, hour) ==
    LET val == traffic_lookup(Lower(city), zone, day_type, hour % 24)
    IN  IF val # Missing THEN val ELSE 300

get_traffic_index(city, zone, day_type, hour) ==
    LET val == traffic_lookup(Lower(city), zone, day_type, hour % 24)
        fallback == traffic_lookup(Lower(city), "Central", day_type, hour % 24)
    IN  IF val # Missing THEN val
        ELSE IF fallback # Missing THEN fallback ELSE 300

\* A faulty get_weather: a simulation uses up the rows it reads, so that
\* the simulations after the first one of a call get the default
WeatherUsedUp(city, month, hour) ==
    LET w == weather_lookup(Lower(city), month, hour % 24)
    IN  IF w # Nothing /\ sims = 0 THEN w[1]
        ELSE [temperature |-> 200, heat_discomfort |-> 0]

\* DataStore.get_weather
get_weather(city, month, hour) ==
    LET w == weather_lookup(Lower(city), month, hour % 24)
    IN  IF w # Nothing THEN w[1] ELSE [temperature |-> 200, heat_discomfort |-> 0]

\* A faulty get_seasonal_multiplier: the table is consulted for the first
\* request only, later requests get the default
SeasonalFirstCallOnly(month) ==
    IF calls <= 1 /\ seasonal(month) # Missing THEN seasonal(month) ELSE 100

\* DataStore.get_seasonal_multiplier
get_seasonal_multiplier(month) ==
    IF seasonal(month) # Missing THEN seasonal(month) ELSE 100

\* DataStore.get_zone_for_coords: the loop over the city's zones
RECURSIVE ZoneLoop(_, _, _, _, _, _)
ZoneLoop(zs, i, lat, lon, best_zone, best_dist) ==
    IF i > Len(zs) THEN best_zone
    ELSE LET z == zs[i]
             dist == haversine_km(lat, lon, z.lat, z.lon)
         IN  IF dist < z.radius_m /\ dist < best_dist
             THEN ZoneLoop(zs, i + 1, lat, lon, z.zone, dist)
             ELSE ZoneLoop(zs, i + 1, lat, lon, best_zone, best_dist)

get_zone_for_coords(city, lat, lon) ==
    ZoneLoop(zones(Lower(city)), 1, lat, lon, "Central", Inf)

\* DataStore.get_event_congestion_multiplier (1e-2)
RECURSIVE VenueLoop(_, _, _, _, _)
VenueLoop(i, city_lower, zone, day_name, max_mult) ==
    IF i > Len(venues) THEN max_mult
    ELSE LET v == venues[i]
         IN  IF Lower(v.city) = city_lower /\ v.affected_zone = zone
                /\ day_name \in v.typical_event_days
             THEN VenueLoop(i + 1, city_lower, zone, day_name,
                            Max(max_mult, v.congestion_multiplier))
             ELSE VenueLoop(i + 1, city_lower, zone, day_name, max_mult)

\* A faulty multiplier: the matching venues compound
EventMultiplierCompounded(city, zone, day_name) ==
    LET Matching(v) == /\ Lower(v.city) = Lower(city)
                       /\ v.affected_zone = zone
                       /\ day_name \in v.typical_event_days
        ms == SelectSeq(venues, Matching)
        RECURSIVE Product(_)
        Product(i) == IF i > Len(ms) THEN 100
                      ELSE (ms[i].congestion_multiplier * Product(i + 1)) \div 100
    IN  Product(1)

\* DataStore.get_event_congestion_multiplier (1e-2)
get_event_congestion_multiplier(city, zone, day_name) ==
    VenueLoop(1, Lower(city), zone, day_name, 100)

\* --------------------------------------------------- travel_estimator.py

\* BASE_SPEEDS (km/h), with the Madrid row as the default
BASE_SPEEDS(city_lower) ==
    CASE city_lower = "madrid" -> [free_flow |-> 38, congested |-> 12]
      [] city_lower = "barcelona" -> [free_flow |-> 35, congested |-> 10]
      [] city_lower = "seville" -> [free_flow |-> 40, congested |-> 15]
      [] OTHER -> [free_flow |-> 38, congested |-> 12]

\* DETOUR_FACTORS (1e-2), default 1.35
DETOUR_FACTORS(city_lower) ==
    CASE city_lower = "madrid" -> 135
      [] city_lower = "barcelona" -> 140
      [] city_lower = "seville" -> 145
      [] OTHER -> 135

\* estimate_travel_time, steps 5 and 6: the effective speed and the result.
\* road5 is the road distance in 1e-5 km, ti6 the traffic index in 1e-6.
TravelResult(road5, ti6, speeds, origin_zone, dest_zone) ==
    LET free_flow == speeds.free_flow
        congested == speeds.congested
        speed6 == Max(free_flow * 1000000 - (free_flow - congested) * ti6,
                      congested * 700000)
    IN  [distance_km |-> RoundDiv(road5, 1000),
         \* road_km / effective_speed * 60; speed6 is a multiple of 5
         duration_minutes |-> RoundDiv(road5 * 1200, speed6 \div 5),
         traffic_index |-> RoundDiv(ti6, 1000),
         speed_kmh |-> RoundDiv(speed6, 100000),
         free_flow_minutes |-> RoundDiv(road5 * 6, free_flow * 1000),
         origin_zone |-> origin_zone,
         dest_zone |-> dest_zone]

\* A faulty estimate: the road distance has no minimum
TravelNoMinimum(straight_m, origin_zone, dest_zone, city, hour, day_type, month) ==
    TravelResult(straight_m * DETOUR_FACTORS(Lower(city)),
                 Min((get_traffic_index(city, origin_zone, day_type, hour)
                      + get_traffic_index(city, dest_zone, day_type, hour))
                     * 5 * get_seasonal_multiplier(month), 1000000),
                 BASE_SPEEDS(Lower(city)), origin_zone, dest_zone)

\* estimate_travel_time, steps 3 and 4: the traffic index of the two zones
\* with the seasonal multiplier, clamped to [0, 1]
TravelInZones(straight_m, origin_zone, dest_zone, city, hour, day_type, month) ==
    TravelResult(Max(straight_m * DETOUR_FACTORS(Lower(city)), 30000),
                 Min((get_traffic_index(city, origin_zone, day_type, hour)
                      + get_traffic_index(city, dest_zone, day_type, hour))
                     * 5 * get_seasonal_multiplier(month), 1000000),
                 BASE_SPEEDS(Lower(city)), origin_zone, dest_zone)

\* estimate_travel_time: distance_km in 1e-2 km, duration_minutes in tenths,
\* traffic_index in 1e-3
estimate_travel_time(origin_lat, origin_lon, dest_lat, dest_lon, city, hour, day_type, month) ==
    TravelInZones(haversine_km(origin_lat, origin_lon, dest_lat, dest_lon),
                  get_zone_for_coords(city, origin_lat, origin_lon),
                  get_zone_for_coords(city, dest_lat, dest_lon),
                  city, hour, day_type, month)

\* ------------------------------------------------------- impact_score.py

\* WEIGHT_PROFILES (1e-2), unknown modes fall back to balanced
WEIGHT_PROFILES(preference_mode) ==
    CASE preference_mode = "comfort" ->
            [traffic |-> 25, heat |-> 35, crowd |-> 25, volatility |-> 15]
      [] preference_mode = "fastest" ->
            [traffic |-> 55, heat |-> 10, crowd |-> 15, volatility |-> 20]
      [] OTHER ->
            [traffic |-> 40, heat |-> 20, crowd |-> 20, volatility |-> 20]

\* compute_crowd_factor (1e-3)
compute_crowd_factor(attraction, arrival_hour) ==
    LET base_crowd ==
            IF arrival_hour \in attraction.peak_hours THEN 85
            ELSE IF attraction.ideal_time_start <= arrival_hour
                    /\ arrival_hour <= attraction.ideal_time_end THEN 40
            ELSE 15
        popularity_factor == Min(attraction.priority_score, 100)
        crowd == base_crowd * 7 + popularity_factor * 3
    IN  Min(crowd, 1000)

\* compute_traffic_volatility (traffic_index in 1e-3, result in 1e-3)
compute_traffic_volatility(traffic_index, hour) ==
    LET morning_rush == 7 <= hour /\ hour <= 9
        evening_rush == 17 <= hour /\ hour <= 20
        base_vol == IF morning_rush \/ evening_rush THEN 6000
                    ELSE IF 10 <= hour /\ hour <= 16 THEN 3000
                    ELSE 1500
        congestion_vol == traffic_index * 4
    IN  RoundDiv(Min(base_vol + congestion_vol, 10000), 10)

\* A faulty heat impact: the category is looked at before the flag
HeatImpactCategoryFirst(city, month, hour, attraction) ==
    LET heat_discomfort == get_weather(city, month, hour).heat_discomfort
    IN  IF attraction.category = "indoor" THEN heat_discomfort * 2
        ELSE IF attraction.heat_sensitive \/ attraction.category = "outdoor"
        THEN heat_discomfort * 10
        ELSE heat_discomfort * 5

\* compute_heat_impact (1e-4)
compute_heat_impact(city, month, hour, attraction) ==
    LET heat_discomfort == get_weather(city, month, hour).heat_discomfort
    IN  IF attraction.heat_sensitive \/ attraction.category = "outdoor"
        THEN heat_discomfort * 10
        ELSE IF attraction.category = "indoor" THEN heat_discomfort * 2
        ELSE heat_discomfort * 5

\* compute_leg_impact_score: the four signals in 1e-5, scores in 1e-4, raw
\* values in 1e-3
compute_leg_impact_score(travel_traffic_index, heat_impact, crowd_factor, traffic_volatility, preference_mode) ==
    LET weights == WEIGHT_PROFILES(preference_mode)
        total == weights.traffic * travel_traffic_index
                 + weights.heat * heat_impact
                 + weights.crowd * crowd_factor
                 + weights.volatility * traffic_volatility
    IN  [total_score |-> RoundDiv(total, 1000),
         traffic_component |-> RoundDiv(weights.traffic * travel_traffic_index, 1000),
         heat_component |-> RoundDiv(weights.heat * heat_impact, 1000),
         crowd_component |-> RoundDiv(weights.crowd * crowd_factor, 1000),
         volatility_component |-> RoundDiv(weights.volatility * traffic_volatility, 1000),
         raw_traffic |-> RoundDiv(travel_traffic_index, 100),
         raw_heat |-> RoundDiv(heat_impact, 100),
         raw_crowd |-> RoundDiv(crowd_factor, 100),
         raw_volatility |-> RoundDiv(traffic_volatility, 100)]

\* compute_itinerary_score
compute_itinerary_score(leg_scores) ==
    IF leg_scores = <<>>
    THEN [total_score |-> 0, avg_score |-> 0, max_score |-> 0, legs |-> 0]
    ELSE LET totals == [i \in 1..Len(leg_scores) |-> leg_scores[i].total_score]
         IN  [total_score |-> SumSeq(totals),
              avg_score |-> RoundDiv(SumSeq(totals), Len(totals)),
              max_score |-> MaxSeq(totals),
              min_score |-> MinSeq(totals),
              legs |-> Len(leg_scores),
              components |->
                [traffic |-> SumSeq([i \in 1..Len(leg_scores) |-> leg_scores[i].traffic_component]),
                 heat |-> SumSeq([i \in 1..Len(leg_scores) |-> leg_scores[i].heat_component]),
                 crowd |-> SumSeq([i \in 1..Len(leg_scores) |-> leg_scores[i].crowd_component]),
                 volatility |-> SumSeq([i \in 1..Len(leg_scores) |-> leg_scores[i].volatility_component])]]

\* ---------------------------------------------------------- optimizer.py

\* datetime.hour of a clock value
HourOf(t) == (t \div 600) % 24

\* strftime("%H:%M"): minute of the day, the date and the seconds dropped
strftime_HM(t) == (t \div 10) % 1440

\* date.strftime("%A") from date.weekday()
DayName(weekday) ==
    << "Monday", "Tuesday", "Wednesday", "Thursday", "Friday", "Saturday",
       "Sunday" >>[weekday + 1]

\* A faulty "Advance state": the clock advances, the position does not
LegDoneStaysPut(st, attr_id, attr, travel, score) ==
    LET travel_end == st.current_time + travel.duration_minutes
        visit_end == travel_end + attr.average_visit_duration * 10
        leg == [attraction_id |-> attr_id,
                attraction_name |-> attr.name,
                travel_from |-> st.current_name,
                travel_start |-> st.current_time,
                travel_end |-> travel_end,
                travel_duration_min |-> travel.duration_minutes,
                travel_distance_km |-> travel.distance_km,
                visit_start |-> travel_end,
                visit_end |-> visit_end,
                visit_duration_min |-> attr.average_visit_duration,
                impact_score |-> score]
    IN  [st EXCEPT !.current_time = visit_end,
                   !.legs = Append(st.legs, leg),
                   !.leg_scores = Append(st.leg_scores, score)]

\* One iteration of the loop of simulate_timeline, from the leg score on:
\* the leg is appended and the position and the clock advance
LegDone(st, attr_id, attr, travel, score) ==
    LET travel_end == st.current_time + travel.duration_minutes
        visit_start == travel_end
        visit_duration == attr.average_visit_duration
        visit_end == visit_start + visit_duration * 10
        leg == [attraction_id |-> attr_id,
                attraction_name |-> attr.name,
                travel_from |-> st.current_name,
                travel_start |-> st.current_time,
                travel_end |-> travel_end,
                travel_duration_min |-> travel.duration_minutes,
                travel_distance_km |-> travel.distance_km,
                visit_start |-> visit_start,
                visit_end |-> visit_end,
                visit_duration_min |-> visit_duration,
                impact_score |-> score]
    IN  [current_time |-> visit_end,
         current_lat |-> attr.latitude,
         current_lon |-> attr.longitude,
         current_name |-> attr.name,
         legs |-> Append(st.legs, leg),
         leg_scores |-> Append(st.leg_scores, score)]

\* A faulty event boost: the products are not cut to 1.0
LegScoreUncapped(travel, heat_impact, crowd_factor, traffic_vol, event_mult, preference_mode) ==
    compute_leg_impact_score(
        IF event_mult > 100 THEN travel.traffic_index * event_mult
        ELSE travel.traffic_index * 100,
        heat_impact * 10,
        crowd_factor * 100,
        IF event_mult > 100 THEN traffic_vol * 120 ELSE traffic_vol * 100,
        preference_mode)

\* The leg score with the event boost: traffic_vol is the volatility before
\* the boost (1e-3), event_mult the venue multiplier (1e-2)
LegScore(travel, heat_impact, crowd_factor, traffic_vol, event_mult, preference_mode) ==
    compute_leg_impact_score(
        IF event_mult > 100 THEN Min(travel.traffic_index * event_mult, 100000)
        ELSE travel.traffic_index * 100,
        heat_impact * 10,
        crowd_factor * 100,
        IF event_mult > 100 THEN Min(traffic_vol * 12, 10000) * 10
        ELSE traffic_vol * 100,
        preference_mode)

\* A faulty iteration: the volatility is taken for the hour of arrival
LegAfterTravelArrivalHour(st, attr_id, attr, city, date, preference_mode, travel) ==
    LET arrival_hour == HourOf(st.current_time + travel.duration_minutes)
    IN  LegDone(st, attr_id, attr, travel,
                LegScore(travel,
                         compute_heat_impact(city, date.month, arrival_hour, attr),
                         compute_crowd_factor(attr, arrival_hour),
                         compute_traffic_volatility(travel.traffic_index, arrival_hour),
                         get_event_congestion_multiplier(city, travel.dest_zone,
                                                         DayName(date.weekday)),
                         preference_mode))

\* One iteration of the loop of simulate_timeline, from the travel estimate on
LegAfterTravel(st, attr_id, attr, city, date, preference_mode, travel) ==
    LET current_hour == HourOf(st.current_time)
        arrival_hour == HourOf(st.current_time + travel.duration_minutes)
    IN  LegDone(st, attr_id, attr, travel,
                LegScore(travel,
                         compute_heat_impact(city, date.month, arrival_hour, attr),
                         compute_crowd_factor(attr, arrival_hour),
                         compute_traffic_volatility(travel.traffic_index, current_hour),
                         get_event_congestion_multiplier(city, travel.dest_zone,
                                                         DayName(date.weekday)),
                         preference_mode))

\* the day after a date of the requests
Tomorrow(date) ==
    [date EXCEPT !.weekday = (date.weekday + 1) % 7,
                 !.month = IF date.iso = "2025-08-31" THEN 9 ELSE date.month]

\* A faulty iteration: day type, weekday name and month are read from the
\* simulated clock, which is past midnight when it shows 24:00 or more
SimLegByTheClock(st, attr_id, attr, city, date, preference_mode) ==
    LET today == IF st.current_time >= 14400 THEN Tomorrow(date) ELSE date
    IN  LegAfterTravel(st, attr_id, attr, city, today, preference_mode,
                       estimate_travel_time(st.current_lat, st.current_lon,
                                            attr.latitude, attr.longitude, city,
                                            HourOf(st.current_time),
                                            IF today.weekday >= 5 THEN "weekend"
                                            ELSE "weekday",
                                            today.month))

\* One iteration of the loop of simulate_timeline for a resolved attraction
SimLeg(st, attr_id, attr, city, date, preference_mode) ==
    LegAfterTravel(st, attr_id, attr, city, date, preference_mode,
                   estimate_travel_time(st.current_lat, st.current_lon,
                                        attr.latitude, attr.longitude, city,
                                        HourOf(st.current_time),
                                        IF date.weekday >= 5 THEN "weekend" ELSE "weekday",
                                        date.month))

RECURSIVE SimLoop(_, _, _, _, _, _)
SimLoop(attraction_ids, i, st, city, date, preference_mode) ==
    IF i > Len(attraction_ids) THEN st
    ELSE LET attr == get_attraction(attraction_ids[i])
         IN  IF attr = Nothing
             THEN SimLoop(attraction_ids, i + 1, st, city, date, preference_mode)
             ELSE SimLoop(attraction_ids, i + 1,
                          SimLeg(st, attraction_ids[i], attr[1], city, date,
                                 preference_mode),
                          city, date, preference_mode)

\* the return statement of simulate_timeline
SimResult(st) ==
    [legs |-> st.legs, itinerary_score |-> compute_itinerary_score(st.leg_scores)]

\* simulate_timeline: [legs, itinerary_score]
simulate_timeline(start_lat, start_lon, attraction_ids, city, date, start_hour, preference_mode) ==
    SimResult(SimLoop(attraction_ids, 1,
                      [current_time |-> start_hour * 600,
                       current_lat |-> start_lat,
                       current_lon |-> start_lon,
                       current_name |-> "Start Location",
                       legs |-> <<>>,
                       leg_scores |-> <<>>],
                      city, date, preference_mode))

\* ItineraryLeg.to_dict
leg_to_dict(leg) ==
    [attraction_id |-> leg.attraction_id,
     attraction_name |-> leg.attraction_name,
     travel_from |-> leg.travel_from,
     departure_time |-> strftime_HM(leg.travel_start),
     arrival_time |-> strftime_HM(leg.travel_end),
     travel_duration_min |-> leg.travel_duration_min,
     travel_distance_km |-> leg.travel_distance_km,
     visit_start |-> strftime_HM(leg.visit_start),
     visit_end |-> strftime_HM(leg.visit_end),
     visit_duration_min |-> leg.visit_duration_min,
     impact_score |-> leg.impact_score]

\* _factorial
RECURSIVE factorial(_)
factorial(n) == IF n <= 1 THEN 1 ELSE n * factorial(n - 1)

\* A faulty filter loop: it stops at the first id the store does not resolve
RECURSIVE FilterUntilUnknown(_)
FilterUntilUnknown(ids) ==
    IF ids = <<>> \/ get_attraction(Head(ids)) = Nothing THEN <<>>
    ELSE <<Head(ids)>> \o FilterUntilUnknown(Tail(ids))

\* The filter loop of optimize_itinerary: the ids the store resolves
RECURSIVE FilterValid(_)
FilterValid(ids) ==
    IF ids = <<>> THEN <<>>
    ELSE IF get_attraction(Head(ids)) # Nothing
         THEN <<Head(ids)>> \o FilterValid(Tail(ids))
         ELSE FilterValid(Tail(ids))

\* A faulty truncation: valid_ids[-7:]
TruncateTail(valid) ==
    IF Len(valid) > 7 THEN SubSeq(valid, Len(valid) - 6, Len(valid)) ELSE valid

\* valid_ids[:7] when more than 7 ids resolve
Truncate(valid) == IF Len(valid) > 7 THEN SubSeq(valid, 1, 7) ELSE valid

\* itertools.permutations(valid_ids): one tuple for every arrangement of the
\* n positions of valid_ids
IndexPerms(n) == Permutations(1..n)

\* Faulty comparisons: "if total != best_score", "if total <= best_score"
IsDifferent(total, best) == total # best

IsAtMost(total, best) == total <= best

\* "if total < best_score"
IsImprovement(total, best) == total < best

\* itertools.permutations yields the index tuples in lexicographic order,
\* starting from the identity: the successor of an index tuple
Swap(p, i, j) == [p EXCEPT ![i] = p[j], ![j] = p[i]]

ReverseFrom(p, i) ==
    [x \in 1..Len(p) |-> IF x < i THEN p[x] ELSE p[Len(p) + i - x]]

\* A faulty successor: only the last two positions are ever exchanged
NextPermLastPair(p) ==
    IF Len(p) >= 2 /\ p[Len(p) - 1] < p[Len(p)] THEN Swap(p, Len(p) - 1, Len(p)) ELSE p

NextPerm(p) ==
    LET n == Len(p)
        asc == {i \in 1..(n - 1) : p[i] < p[i + 1]}
    IN  IF asc = {} THEN p
        ELSE LET i == CHOOSE x \in asc : \A y \in asc : y <= x
                 gt == {j \in (i + 1)..n : p[j] > p[i]}
                 j == CHOOSE x \in gt : \A y \in gt : y <= x
             IN  ReverseFrom(Swap(p, i, j), i + 1)

IdentityPerm(n) == [i \in 1..n |-> i]

\* the tuple of ids an index tuple selects
PermIds(ids, p) == [i \in 1..Len(p) |-> ids[p[i]]]

\* the names of a tuple of ids (all_scores "permutation")
PermNames(ids) == [i \in 1..Len(ids) |-> get_attraction(ids[i])[1].name]

\* list.sort(key=lambda x: x["total_score"]): a stable merge sort.  Merge
\* picks the p-th element of the merge of two sorted runs, the left run
\* winning ties.
RECURSIVE TakenFromLeft(_, _, _, _, _)
TakenFromLeft(a, b, p, lo, hi) ==
    \* the largest i in lo..hi such that a[1..i] are among the first p
    IF lo >= hi THEN lo
    ELSE LET i == (lo + hi + 1) \div 2
         IN  IF p - i >= Len(b) \/ a[i].total_score <= b[p - i + 1].total_score
             THEN TakenFromLeft(a, b, p, i, hi)
             ELSE TakenFromLeft(a, b, p, lo, i - 1)

Merge(a, b) ==
    [p \in 1..(Len(a) + Len(b)) |->
        LET i == TakenFromLeft(a, b, p, 0, Min(p, Len(a)))
            j == p - i
        IN  IF i > 0 /\ (j = 0 \/ b[j].total_score < a[i].total_score)
            THEN a[i] ELSE b[j]]

RECURSIVE SortByTotal(_)
SortByTotal(s) ==
    IF Len(s) <= 1 THEN s
    ELSE LET h == Len(s) \div 2
         IN  Merge(SortByTotal(SubSeq(s, 1, h)), SortByTotal(SubSeq(s, h + 1, Len(s))))

\* _generate_explanation: the values the text is built from
generate_explanation(legs, score, sorted_scores, preference_mode, city, date) ==
    LET n == Len(legs)
        total_perms == Len(sorted_scores)
        best_total == IF sorted_scores # <<>> THEN sorted_scores[1].total_score ELSE 0
        worst_total == IF sorted_scores # <<>>
                       THEN sorted_scores[total_perms].total_score ELSE 0
        improvement == IF worst_total > 0
                       THEN RoundDiv((worst_total - best_total) * 1000, worst_total)
                       ELSE 0
        weather == get_weather(city, date.month, 14)
        outdoor_hours == {HourOf(legs[i].visit_start) : i \in
                            {x \in 1..n : attractions_by_id[legs[x].attraction_id].category
                                          = "outdoor"}}
        heat_insight ==
            IF weather.heat_discomfort >= 400 /\ outdoor_hours # {}
               /\ (\E h \in outdoor_hours : h < 11)
            THEN << [kind |-> "heat", temperature |-> RoundDiv(weather.temperature, 10)] >>
            ELSE <<>>
        off_peak == {i \in 1..n :
                        LET ph == attractions_by_id[legs[i].attraction_id].peak_hours
                        IN  ph # {} /\ HourOf(legs[i].visit_start) \notin ph}
        crowd_insight ==
            IF off_peak # {}
            THEN LET i == CHOOSE x \in off_peak : \A y \in off_peak : x <= y
                 IN  << [kind |-> "crowd", name |-> legs[i].attraction_name] >>
            ELSE <<>>
        rush == Cardinality({i \in 1..n :
                    LET h == HourOf(legs[i].travel_start)
                    IN  (7 <= h /\ h <= 9) \/ (17 <= h /\ h <= 20)})
        rush_insight ==
            IF n - rush > rush
            THEN << [kind |-> "rush", non_rush |-> n - rush] >>
            ELSE <<>>
    IN  [n |-> n,
         city |-> Capitalize(city),
         date |-> date.iso,
         mode |-> preference_mode,
         route |-> [i \in 1..n |-> legs[i].attraction_name],
         total_perms |-> total_perms,
         best |-> RoundDiv(best_total, 10),
         worst |-> RoundDiv(worst_total, 10),
         improvement |-> improvement,
         travel |-> RoundDiv(SumSeq([i \in 1..n |-> legs[i].travel_duration_min]), 10),
         visit |-> SumSeq([i \in 1..n |-> legs[i].visit_duration_min]),
         insights |-> heat_insight \o crowd_insight \o rush_insight,
         traffic |-> RoundDiv(score.components.traffic, 10),
         heat |-> RoundDiv(score.components.heat, 10),
         crowd |-> RoundDiv(score.components.crowd, 10),
         volatility |-> RoundDiv(score.components.volatility, 10)]

\* OptimizationResult(): the fields as __init__ leaves them
EmptyResult ==
    [ordered_route |-> <<>>,
     timeline |-> <<>>,
     total_travel_time |-> 0,
     total_visit_time |-> 0,
     total_impact_score |-> 0,
     impact_breakdown |-> <<>>,
     itinerary_start |-> <<>>,
     itinerary_end |-> <<>>,
     permutations_evaluated |-> 0,
     explanation |-> <<>>,
     all_scores |-> <<>>]

\* A faulty degraded result: the explanation is left empty
DegradedNoMessage == [EmptyResult EXCEPT !.permutations_evaluated = 0]

\* the result of optimize_itinerary when no id resolves
DegradedResult ==
    [EmptyResult EXCEPT !.explanation = << [text |-> "No valid attractions provided."] >>]

\* A faulty entry of ordered_route: the rank is the 0-based position
RouteEntryZeroBased(i, leg) ==
    [order |-> i - 1, attraction_id |-> leg.attraction_id, name |-> leg.attraction_name]

\* an entry of ordered_route: i is the 1-based position of the leg
RouteEntry(i, leg) ==
    [order |-> i, attraction_id |-> leg.attraction_id, name |-> leg.attraction_name]

\* A faulty "Build result": all_scores is left in enumeration order
BuildResultUnsorted(legs, itinerary_score, scores, n_perms, preference_mode, city, date) ==
    IF legs = <<>>
    THEN [EmptyResult EXCEPT !.permutations_evaluated = n_perms]
    ELSE [ordered_route |-> [i \in 1..Len(legs) |-> RouteEntry(i, legs[i])],
          timeline |-> [i \in 1..Len(legs) |-> leg_to_dict(legs[i])],
          total_travel_time |->
             SumSeq([i \in 1..Len(legs) |-> legs[i].travel_duration_min]),
          total_visit_time |->
             SumSeq([i \in 1..Len(legs) |-> legs[i].visit_duration_min]),
          total_impact_score |-> itinerary_score.total_score,
          impact_breakdown |-> << itinerary_score >>,
          itinerary_start |-> << strftime_HM(legs[1].travel_start) >>,
          itinerary_end |-> << strftime_HM(legs[Len(legs)].visit_end) >>,
          permutations_evaluated |-> n_perms,
          explanation |-> << generate_explanation(legs, itinerary_score,
                                  scores, preference_mode, city, date) >>,
          all_scores |-> scores]

\* The "Build result" part of optimize_itinerary
BuildResult(legs, itinerary_score, scores, n_perms, preference_mode, city, date) ==
    IF legs = <<>>
    THEN [EmptyResult EXCEPT !.permutations_evaluated = n_perms]
    ELSE LET sorted_scores == SortByTotal(scores)
         IN  [ordered_route |-> [i \in 1..Len(legs) |-> RouteEntry(i, legs[i])],
              timeline |-> [i \in 1..Len(legs) |-> leg_to_dict(legs[i])],
              total_travel_time |->
                 SumSeq([i \in 1..Len(legs) |-> legs[i].travel_duration_min]),
              total_visit_time |->
                 SumSeq([i \in 1..Len(legs) |-> legs[i].visit_duration_min]),
              total_impact_score |-> itinerary_score.total_score,
              impact_breakdown |-> << itinerary_score >>,
              itinerary_start |-> << strftime_HM(legs[1].travel_start) >>,
              itinerary_end |-> << strftime_HM(legs[Len(legs)].visit_end) >>,
              permutations_evaluated |-> n_perms,
              explanation |-> << generate_explanation(legs, itinerary_score,
                                      sorted_scores, preference_mode, city, date) >>,
              all_scores |-> sorted_scores]

\* A faulty loop: it stops after the first permutation
PermLoopFirstOnly(a, valid, p, acc) ==
    LET ids == PermIds(valid, p)
        sim == simulate_timeline(a.start_lat, a.start_lon, ids, a.city, a.date,
                                 a.start_hour, a.preference_mode)
    IN  [best_score |-> sim.itinerary_score.total_score, best_legs |-> sim.legs,
         best_itinerary_score |-> Some(sim.itinerary_score),
         all_scores |-> << [permutation |-> PermNames(ids),
                            total_score |-> sim.itinerary_score.total_score,
                            avg_score |-> sim.itinerary_score.avg_score] >>]

\* the loop "for perm in all_perms" of optimize_itinerary from the index
\* tuple p on; a holds the arguments of the call, acc the loop variables
RECURSIVE PermLoop(_, _, _, _)
PermLoop(a, valid, p, acc) ==
    LET ids == PermIds(valid, p)
        sim == simulate_timeline(a.start_lat, a.start_lon, ids, a.city, a.date,
                                 a.start_hour, a.preference_mode)
        total == sim.itinerary_score.total_score
        scores == Append(acc.all_scores,
                         [permutation |-> PermNames(ids),
                          total_score |-> total,
                          avg_score |-> sim.itinerary_score.avg_score])
        after == IF IsImprovement(total, acc.best_score)
                 THEN [best_score |-> total, best_legs |-> sim.legs,
                       best_itinerary_score |-> Some(sim.itinerary_score),
                       all_scores |-> scores]
                 ELSE [acc EXCEPT !.all_scores = scores]
        nxt == NextPerm(p)
    IN  IF nxt = p THEN after ELSE PermLoop(a, valid, nxt, after)

\* optimize_itinerary as a function of its arguments: the result of a call
\* that nothing interrupts
optimize_itinerary(a) ==
    LET valid == Truncate(FilterValid(a.attraction_ids))
    IN  IF valid = <<>> THEN DegradedResult
        ELSE LET acc == PermLoop(a, valid, IdentityPerm(Len(valid)),
                                 [best_score |-> Inf, best_legs |-> <<>>,
                                  best_itinerary_score |-> Nothing,
                                  all_scores |-> <<>>])
             IN  BuildResult(acc.best_legs, acc.best_itinerary_score[1], acc.all_scores,
                             Cardinality(IndexPerms(Len(valid))), a.preference_mode,
                             a.city, a.date)

\* -------------------------------------------------------------- api/cache.py

\* round(x, 4) of a coordinate in 1e-5 degree (result in 1e-4 degree)
Round4(x) == IF x >= 0 THEN RoundDiv(x, 10) ELSE -RoundDiv(-x, 10)

\* the order of str on the attraction ids of the requests
IdRank(id) ==
    CASE id = "a1" -> 1 [] id = "a2" -> 2 [] id = "a3" -> 3 [] id = "a4" -> 4
      [] id = "a5" -> 5 [] id = "a6" -> 6 [] id = "a7" -> 7 [] id = "a8" -> 8
      [] OTHER -> 9

\* sorted(attraction_ids)
RECURSIVE InsertSorted(_, _)
InsertSorted(s, x) ==
    IF s = <<>> THEN <<x>>
    ELSE IF IdRank(x) < IdRank(Head(s)) THEN <<x>> \o s
    ELSE <<Head(s)>> \o InsertSorted(Tail(s), x)

RECURSIVE sorted(_)
sorted(ids) ==
    IF ids = <<>> THEN <<>>
    ELSE InsertSorted(sorted(SubSeq(ids, 1, Len(ids) - 1)), ids[Len(ids)])

\* optimize_cache_key: the tuple CacheStore.make_key hashes
optimize_cache_key(start_lat, start_lon, attraction_ids, city, date_str, start_hour, preference_mode) ==
    << "optimize", Round4(start_lat), Round4(start_lon), sorted(attraction_ids),
       city, date_str, start_hour, preference_mode >>

\* CacheStore default_ttl (seconds)
default_ttl == 900

\* CacheStore.get: the value returned (Nothing for Python None)
cache_get_value(store, key, t) ==
    IF key \notin DOMAIN store THEN Nothing
    ELSE IF t > store[key].expires_at THEN Nothing
    ELSE Some(store[key].value)

\* CacheStore.get: the store it leaves (an expired entry is deleted)
cache_get_store(store, key, t) ==
    IF key \in DOMAIN store /\ t > store[key].expires_at
    THEN [x \in DOMAIN store \ {key} |-> store[x]]
    ELSE store

\* CacheStore.get: _hits after the call
cache_get_hits(hits, store, key, t) ==
    IF key \in DOMAIN store /\ ~(t > store[key].expires_at) THEN hits + 1 ELSE hits

\* CacheStore.get: _misses after the call
cache_get_misses(misses, store, key, t) ==
    IF key \in DOMAIN store /\ ~(t > store[key].expires_at) THEN misses ELSE misses + 1

\* CacheStore.set: "ttl or self._default_ttl" for ttl = Nothing (None) or
\* Some(seconds)
TtlOr(ttl) == IF ttl = Nothing \/ ttl[1] = 0 THEN default_ttl ELSE ttl[1]

\* CacheStore.set(key, value, ttl)
CacheStore_set(store, key, value, ttl, t) ==
    [x \in DOMAIN store \cup {key} |->
        IF x = key
        THEN [value |-> value, expires_at |-> t + TtlOr(ttl), created_at |-> t]
        ELSE store[x]]

\* CacheStore.set(key, value)
cache_set(store, key, value, t) == CacheStore_set(store, key, value, Nothing, t)

\* CacheStore.delete
CacheStore_delete(store, key) == [x \in DOMAIN store \ {key} |-> store[x]]

\* CacheStore.cleanup
CacheStore_cleanup(store, t) ==
    [x \in {y \in DOMAIN store : ~(t > store[y].expires_at)} |-> store[x]]

\* ------------------------------------------------------------ api/schemas.py

\* date.fromisoformat / datetime.fromisoformat on the date strings of the
\* requests: Some(date) or Nothing (ValueError)
fromisoformat(date_str) ==
    CASE date_str = "2025-07-15" -> Some([iso |-> "2025-07-15", month |-> 7, weekday |-> 1])
      [] date_str = "2025-06-14" -> Some([iso |-> "2025-06-14", month |-> 6, weekday |-> 5])
      [] date_str = "2025-08-31" -> Some([iso |-> "2025-08-31", month |-> 8, weekday |-> 6])
      [] OTHER -> Nothing

\* A faulty validate: the start hour is not checked
ValidateWithoutHour(req) ==
    IF ~(-9000000 <= req.start_latitude /\ req.start_latitude <= 9000000)
    THEN Some("start_latitude must be between -90 and 90")
    ELSE IF ~(-18000000 <= req.start_longitude /\ req.start_longitude <= 18000000)
    THEN Some("start_longitude must be between -180 and 180")
    ELSE IF req.attraction_ids = <<>>
    THEN Some("attraction_ids must not be empty")
    ELSE IF Len(req.attraction_ids) > 7
    THEN Some("Maximum 7 attractions per itinerary")
    ELSE IF req.preference_mode \notin {"comfort", "fastest", "balanced"}
    THEN Some("preference_mode must be comfort, fastest, or balanced")
    ELSE IF fromisoformat(req.date) = Nothing
    THEN Some("date must be in ISO format (YYYY-MM-DD)")
    ELSE Nothing

\* OptimizeRequest.validate: Nothing, or Some(error message)
validate(req) ==
    IF ~(-9000000 <= req.start_latitude /\ req.start_latitude <= 9000000)
    THEN Some("start_latitude must be between -90 and 90")
    ELSE IF ~(-18000000 <= req.start_longitude /\ req.start_longitude <= 18000000)
    THEN Some("start_longitude must be between -180 and 180")
    ELSE IF req.attraction_ids = <<>>
    THEN Some("attraction_ids must not be empty")
    ELSE IF Len(req.attraction_ids) > 7
    THEN Some("Maximum 7 attractions per itinerary")
    ELSE IF req.preference_mode \notin {"comfort", "fastest", "balanced"}
    THEN Some("preference_mode must be comfort, fastest, or balanced")
    ELSE IF ~(0 <= req.start_hour /\ req.start_hour <= 23)
    THEN Some("start_hour must be between 0 and 23")
    ELSE IF fromisoformat(req.date) = Nothing
    THEN Some("date must be in ISO format (YYYY-MM-DD)")
    ELSE Nothing

\* OptimizationResult.to_dict
result_to_dict(r) ==
    [ordered_route |-> r.ordered_route,
     timeline |-> r.timeline,
     total_travel_time_min |-> r.total_travel_time,
     total_visit_time_min |-> r.total_visit_time * 10,
     total_duration_min |-> r.total_travel_time + r.total_visit_time * 10,
     total_impact_score |-> r.total_impact_score,
     impact_breakdown |-> r.impact_breakdown,
     itinerary_start |-> r.itinerary_start,
     itinerary_end |-> r.itinerary_end,
     permutations_evaluated |-> r.permutations_evaluated,
     explanation |-> r.explanation]

\* ------------------------------------------------------------- the requests

Hotel == [lat |-> 4042000, lon |-> -370500]

RECURSIVE SeqsUpTo(_, _)
SeqsUpTo(S, n) ==
    IF n = 0 THEN {<<>>}
    ELSE LET shorter == SeqsUpTo(S, n - 1)
         IN  shorter \cup {Append(q, x) : q \in {y \in shorter : Len(y) = n - 1}, x \in S}

Canon == << "a1", "a2", "a3", "a4", "a5", "a6", "a7", "a8" >>

\* the stop lists of each pool
StopLists(p) ==
    CASE p = "wide" ->
            SeqsUpTo({"a1", "a2", "zz"}, MaxLen)
            \cup { << "a4", "a5" >>, << "a5", "a4" >>, << "a4", "a5", "a1" >>,
                   << "a1", "a5", "zz", "a4" >>, << "a1", "a5", "a4" >>,
                   << "a3", "a2", "a1" >>, << "a8", "a6", "a7", "a3" >>,
                   << "a6", "a3" >> }
      [] p = "seq" ->
            { << "a1", "a2" >>, << "a1", "zz", "a2" >>, << "a2", "a1" >> }
      [] p = "hit" ->
            { << "a1", "a2" >>, << "a4", "a5" >>, << "a5", "a4" >> }
      [] OTHER ->
            { SubSeq(Canon, 1, 5), SubSeq(Canon, 1, 6), SubSeq(Canon, 1, 7),
              << "a1", "a2", "zz", "a3", "a4", "a5", "a6", "a7", "a8" >> }

\* the stop lists of the API requests of each pool
ApiLists(p) ==
    IF p = "big" THEN {l \in StopLists(p) : Len(l) # 7} ELSE StopLists(p)

DefaultParams ==
    [start_lat |-> Hotel.lat, start_lon |-> Hotel.lon, city |-> "Madrid",
     date |-> "2025-07-15", start_hour |-> 9, preference_mode |-> "balanced"]

\* the remaining arguments of each pool
ParamSets(p) ==
    IF p = "wide"
    THEN { DefaultParams,
           [DefaultParams EXCEPT !.preference_mode = "comfort"],
           [DefaultParams EXCEPT !.preference_mode = "fastest"],
           [DefaultParams EXCEPT !.preference_mode = "turbo"],
           [DefaultParams EXCEPT !.start_hour = 17],
           [DefaultParams EXCEPT !.start_hour = 22, !.date = "2025-06-14"],
           [DefaultParams EXCEPT !.start_hour = 22, !.date = "2025-08-31"],
           [DefaultParams EXCEPT !.date = "2025-06-14"],
           [DefaultParams EXCEPT !.city = "Seville"],
           [DefaultParams EXCEPT !.start_lat = 4045000, !.start_lon = -369004] }
    ELSE IF p = "hit"
    THEN { DefaultParams, [DefaultParams EXCEPT !.start_lat = Hotel.lat + 4] }
    ELSE { DefaultParams }

\* arguments of direct calls of optimize_itinerary
EngineCalls(p) ==
    { [start_lat |-> q.start_lat, start_lon |-> q.start_lon, attraction_ids |-> l,
       city |-> q.city, date |-> fromisoformat(q.date)[1],
       start_hour |-> q.start_hour, preference_mode |-> q.preference_mode] :
      q \in ParamSets(p), l \in StopLists(p) }

\* JSON bodies of POST /api/optimize; parse_ok = FALSE is a body with a field
\* float() or int() rejects
ApiBodies(p) ==
    { [start_latitude |-> q.start_lat, start_longitude |-> q.start_lon,
       date |-> q.date, attraction_ids |-> l,
       preference_mode |-> q.preference_mode, start_hour |-> q.start_hour,
       parse_ok |-> TRUE] :
      q \in {x \in ParamSets(p) : x.city = "Madrid"}, l \in ApiLists(p) }
    \cup
    IF p # "wide" THEN {} ELSE
    { [start_latitude |-> DefaultParams.start_lat,
       start_longitude |-> DefaultParams.start_lon,
       date |-> d, attraction_ids |-> << "a1", "a2" >>,
       preference_mode |-> "balanced", start_hour |-> h, parse_ok |-> ok] :
      d \in {"2025-07-15", "not-a-date"}, h \in {9, 24}, ok \in BOOLEAN }
    \cup
    { [start_latitude |-> la, start_longitude |-> lo,
       date |-> "2025-07-15", attraction_ids |-> << "a1", "a2" >>,
       preference_mode |-> "balanced", start_hour |-> 9, parse_ok |-> TRUE] :
      la \in {Hotel.lat + 4, 9000001}, lo \in {Hotel.lon, -18000001} }

\* keys, values and ttl arguments of the operations on a CacheStore taken alone
CacheKeys == {"k1", "k2"}

CacheValues == {"v1", "v2"}

CacheTtls == {Nothing, Some(0), Some(1)}

\* client addresses: the first sends the requests of the pools, and any
\* number of requests to the limiter taken alone; the others few
ClientIp == "10.0.0.1"

RateClients == {ClientIp, "10.0.0.2"}

\* the request threads of the concurrent start
Threads == 1..MaxThreads

\* number of requests a run of the pool serves
Budget(p) ==
    CASE p = "seq" -> MaxCalls
      [] p = "wide" -> 2
      [] p = "hit" -> 2
      [] OTHER -> 1

\* the two stop lists name the same stops, in any order
SameStops(l1, l2) ==
    /\ Len(l1) = Len(l2)
    /\ \A x \in {l1[i] : i \in 1..Len(l1)} :
          Cardinality({i \in 1..Len(l1) : l1[i] = x})
          = Cardinality({i \in 1..Len(l2) : l2[i] = x})

\* a call with the ids that are no key of the attraction table removed
IsKnown(id) == id \in KnownIds

Cleaned(a) == [a EXCEPT !.attraction_ids = SelectSeq(a.attraction_ids, IsKnown)]

\* ------------------------------------------------------------- the actions

\* get_data_store() run by one request without interruption
get_data_store ==
    /\ _store' = IF _store = Nothing THEN Some(constructed + 1) ELSE _store
    /\ constructed' = IF _store = Nothing THEN constructed + 1 ELSE constructed
    /\ UNCHANGED _initialized

\* ensure_initialized() run by one request without interruption
ensure_initialized ==
    /\ _store' = IF ~_initialized /\ _store = Nothing THEN Some(constructed + 1)
                 ELSE _store
    /\ constructed' = IF ~_initialized /\ _store = Nothing THEN constructed + 1
                      ELSE constructed
    /\ _initialized' = TRUE

\* the request threads before any of them has run
ThreadsAtStart == [t \in Threads |-> [pc |-> "ei_test", inst |-> 0, got |-> 0]]

ResetLocals ==
    /\ valid_ids' = <<>>
    /\ perm' = Nothing
    /\ k' = 0
    /\ num_perms' = 0
    /\ best_score' = Inf
    /\ best_legs' = <<>>
    /\ best_itinerary_score' = Nothing
    /\ best_perm' = <<>>
    /\ all_scores' = <<>>
    /\ sims' = 0

InitPool(p) ==
    /\ pool = p
    /\ calls = 0
    /\ now = 0
    /\ pc = "idle"
    /\ via = "engine"
    /\ api_req = Nothing
    /\ args = Nothing
    /\ valid_ids = <<>>
    /\ perm = Nothing
    /\ k = 0
    /\ num_perms = 0
    /\ best_score = Inf
    /\ best_legs = <<>>
    /\ best_itinerary_score = Nothing
    /\ best_perm = <<>>
    /\ all_scores = <<>>
    /\ sims = 0
    /\ result = Nothing
    /\ raised = FALSE
    /\ response = Nothing
    /\ cache = <<>>
    /\ sim_out = Nothing
    /\ first = Nothing
    /\ _store = Nothing
    /\ _initialized = FALSE
    /\ constructed = 0
    /\ thr = ThreadsAtStart
    /\ rl = [t \in Threads |-> [pc |-> "start", now |-> 0, kept |-> <<>>]]
    /\ last_set = [key \in CacheKeys |-> Nothing]
    /\ got = Nothing
    /\ _requests = <<>>
    /\ recent = [c \in RateClients |-> <<>>]
    /\ decision = Nothing
    /\ fn_out = Nothing
    /\ _hits = 0
    /\ _misses = 0
    /\ stored_by = <<>>

Init == \E p \in {"wide", "seq", "big", "hit"} : InitPool(p) /\ fn_in = Nothing

\* time passes between two requests
Tick ==
    /\ pc = "idle"
    /\ pool = "seq"
    /\ \E d \in {default_ttl, default_ttl + 1} :
          /\ now + d <= MaxNow
          /\ now' = now + d
    /\ UNCHANGED <<others, _requests, cache_aux, pool, calls, pc, via, api_req, args, result, raised, response,
                   cache, sim_out, first, locals, store_vars>>

\* a caller enters optimize_itinerary directly
Call ==
    /\ pc = "idle"
    /\ calls < Budget(pool)
    /\ \E a \in EngineCalls(pool) :
          \* in the wide pool the second call repeats the first one with
          \* the unknown ids removed, or optimizes the stops of the list
          \* that was simulated directly
          /\ (pool = "wide" /\ calls = 1) =>
                \/ first # Nothing /\ a = Cleaned(first[1].args)
                \/ /\ sim_out # Nothing
                   /\ SameStops(a.attraction_ids, args[1].attraction_ids)
                   /\ a = [args[1] EXCEPT !.attraction_ids = a.attraction_ids]
          /\ args' = Some(a)
    /\ calls' = calls + 1
    /\ via' = "engine"
    /\ pc' = "call"
    /\ api_req' = Nothing
    /\ result' = Nothing
    /\ raised' = FALSE
    /\ response' = Nothing
    /\ UNCHANGED <<others, _requests, cache_aux, pool, now, cache, sim_out, first, locals, store_vars>>

\* a caller runs simulate_timeline directly on a stop list
SimulateCall ==
    /\ pc = "idle"
    /\ pool # "seq"
    /\ calls = 0
    /\ \E a \in EngineCalls(pool) :
          /\ args' = Some(a)
          /\ sim_out' = Some(simulate_timeline(a.start_lat, a.start_lon,
                                               a.attraction_ids, a.city, a.date,
                                               a.start_hour, a.preference_mode))
    /\ calls' = calls + 1
    /\ via' = "sim"
    /\ api_req' = Nothing
    /\ result' = Nothing
    /\ raised' = FALSE
    /\ response' = Nothing
    /\ get_data_store
    /\ UNCHANGED <<others, _requests, cache_aux, pool, now, pc, cache, first, locals>>

\* optimize_itinerary up to and including the initialisation of the loop
Begin ==
    /\ pc = "call"
    /\ LET a == args[1]
           valid == FilterValid(a.attraction_ids)
           n == Len(valid)
       IN  IF n = 0
           THEN /\ result' = Some(DegradedResult)
                /\ pc' = "returned"
                /\ ResetLocals
           ELSE /\ valid_ids' = Truncate(valid)
                /\ perm' = Some(IdentityPerm(Len(valid_ids')))
                /\ num_perms' = Cardinality(IndexPerms(Len(valid_ids')))
                /\ k' = 0
                /\ sims' = 0
                /\ best_score' = Inf
                /\ best_legs' = <<>>
                /\ best_itinerary_score' = Nothing
                /\ best_perm' = <<>>
                /\ all_scores' = <<>>
                /\ pc' = "loop"
                /\ result' = Nothing
    /\ get_data_store
    /\ UNCHANGED <<others, _requests, cache_aux, pool, calls, now, via, api_req, args, raised, response, cache,
                   sim_out, first>>

\* one iteration of "for perm in all_perms"
SimulateNext ==
    /\ pc = "loop"
    /\ perm # Nothing
    /\ \E ids \in {PermIds(valid_ids, perm[1])} :
       \E sim \in {simulate_timeline(args[1].start_lat, args[1].start_lon, ids,
                                     args[1].city, args[1].date, args[1].start_hour,
                                     args[1].preference_mode)} :
       LET total == sim.itinerary_score.total_score
       IN  /\ all_scores' = Append(all_scores,
                                   [permutation |-> PermNames(ids),
                                    total_score |-> total,
                                    avg_score |-> sim.itinerary_score.avg_score])
           /\ IF IsImprovement(total, best_score)
              THEN /\ best_score' = total
                   /\ best_legs' = sim.legs
                   /\ best_itinerary_score' = Some(sim.itinerary_score)
                   /\ best_perm' = ids
              ELSE UNCHANGED <<best_score, best_legs, best_itinerary_score, best_perm>>
    /\ \E nxt \in {NextPerm(perm[1])} :
          perm' = IF nxt = perm[1] THEN Nothing ELSE Some(nxt)
    /\ k' = k + 1
    /\ sims' = sims + 1
    /\ get_data_store
    /\ UNCHANGED <<others, _requests, cache_aux, pool, calls, now, pc, via, api_req, args, valid_ids, num_perms,
                   result, raised, response, cache, sim_out, first>>

\* the travel estimator or the scorer raises while a permutation is simulated
SimulateFault ==
    /\ pc = "loop"
    /\ perm # Nothing
    /\ raised' = TRUE
    /\ result' = Nothing
    /\ pc' = "returned"
    /\ ResetLocals
    /\ UNCHANGED <<others, _requests, cache_aux, pool, calls, now, via, api_req, args, response, cache, sim_out,
                   first, store_vars>>

\* the rest of optimize_itinerary: "Build result" and return
Build ==
    /\ pc = "loop"
    /\ perm = Nothing
    /\ LET a == args[1]
           r == BuildResult(best_legs, best_itinerary_score[1], all_scores,
                            num_perms, a.preference_mode, a.city, a.date)
       IN  /\ result' = Some(r)
           /\ all_scores' = r.all_scores
    /\ pc' = "returned"
    /\ get_data_store
    /\ UNCHANGED <<others, _requests, cache_aux, pool, calls, now, via, api_req, args, raised, response, cache, sim_out, first,
                   valid_ids, perm, k, num_perms, best_score, best_legs,
                   best_itinerary_score, best_perm, sims>>

RecordFirst ==
    first' = IF raised THEN first
             ELSE IF first = Nothing
             THEN Some([args |-> args[1], result |-> result[1], later |-> FALSE])
             ELSE IF args[1] # first[1].args
             THEN Some([first[1] EXCEPT !.later = TRUE])
             ELSE first

\* the direct caller receives the result (or the exception)
EngineReturn ==
    /\ pc = "returned"
    /\ via = "engine"
    /\ pc' = "idle"
    /\ RecordFirst
    /\ ResetLocals
    /\ UNCHANGED <<others, _requests, cache_aux, pool, calls, now, via, api_req, args, result, raised, response, cache,
                   sim_out, store_vars>>

\* RateLimiter(max_requests=60, window_seconds=60)
max_requests == 60

window == 60

\* A faulty filter: a request exactly window seconds old still counts
KeptInclusive(l, t) ==
    LET Fresh(x) == t - x <= window
    IN  SelectSeq(l, Fresh)

\* RateLimiter.is_allowed: the timestamps kept by the list comprehension
Kept(l, t) ==
    LET Fresh(x) == t - x < window
    IN  SelectSeq(l, Fresh)

\* RateLimiter.is_allowed: the client's list, [] when the client is new
ListOf(reqs, client) == IF client \in DOMAIN reqs THEN reqs[client] ELSE <<>>

\* RateLimiter.is_allowed: the value returned
is_allowed(reqs, client, t) == Len(Kept(ListOf(reqs, client), t)) < max_requests

\* RateLimiter.is_allowed: _requests after the call
requests_after(reqs, client, t) ==
    [c \in DOMAIN reqs \cup {client} |->
        IF c # client THEN reqs[c]
        ELSE IF is_allowed(reqs, client, t)
             THEN Append(Kept(ListOf(reqs, client), t), t)
             ELSE Kept(ListOf(reqs, client), t)]

\* the response of rate_limit to a request that is not allowed
RateLimitExceeded ==
    [status |-> 429,
     body |-> [success |-> FALSE,
               error |-> "Rate limit exceeded. Max 60 requests per minute.",
               code |-> 429]]

\* the writer of each cache entry, after a cache.set under key for request r
WrittenBy(w, key, r) ==
    [x \in DOMAIN w \cup {key} |-> IF x = key THEN r ELSE w[x]]

\* jsonify(...) of an error, with its status
ErrorResponse(status, error) ==
    [status |-> status, body |-> [success |-> FALSE, error |-> error]]

\* the city of the first attraction id the store resolves, or Nothing
RECURSIVE FirstCity(_)
FirstCity(ids) ==
    IF ids = <<>> THEN Nothing
    ELSE IF get_attraction(Head(ids)) # Nothing
         THEN Some(get_attraction(Head(ids))[1].city)
         ELSE FirstCity(Tail(ids))

\* the cache key optimize() computes for a request
RequestKey(r) ==
    optimize_cache_key(r.start_latitude, r.start_longitude, r.attraction_ids, "",
                       r.date, r.start_hour, r.preference_mode)

\* optimize() from the parsing of the body to the call of the optimizer
optimize ==
    /\ \E data \in {Some(b) : b \in ApiBodies(pool)} \cup {Nothing} :
          IF data = Nothing
          THEN /\ response' = Some(ErrorResponse(400, "Request body must be JSON"))
               /\ api_req' = Nothing
               /\ UNCHANGED <<pc, args, cache, _hits, _misses>>
          ELSE IF ~data[1].parse_ok
          THEN /\ response' = Some(ErrorResponse(400, "Invalid input"))
               /\ api_req' = Nothing
               /\ UNCHANGED <<pc, args, cache, _hits, _misses>>
          ELSE IF validate(data[1]) # Nothing
          THEN /\ response' = Some(ErrorResponse(400, validate(data[1])[1]))
               /\ api_req' = data
               /\ UNCHANGED <<pc, args, cache, _hits, _misses>>
          ELSE /\ api_req' = data
               /\ _hits' = cache_get_hits(_hits, cache, RequestKey(data[1]), now)
               /\ _misses' = cache_get_misses(_misses, cache, RequestKey(data[1]), now)
               /\ LET r == data[1]
                      cache_key == RequestKey(r)
                      cached == cache_get_value(cache, cache_key, now)
                      store == cache_get_store(cache, cache_key, now)
                      city == FirstCity(r.attraction_ids)
                      visit_date == fromisoformat(r.date)
                  IN  IF cached # Nothing
                      THEN \* cached is the stored dict itself: the flag is set in place
                           /\ cache' = [store EXCEPT ![cache_key].value._cached = TRUE]
                           /\ response' = Some([status |-> 200,
                                                body |-> [cached[1] EXCEPT !._cached = TRUE]])
                           /\ UNCHANGED <<pc, args>>
                      ELSE IF city = Nothing
                      THEN /\ response' = Some(ErrorResponse(400, "No valid attraction IDs found"))
                           /\ cache' = store
                           /\ UNCHANGED <<pc, args>>
                      ELSE IF visit_date = Nothing
                      THEN /\ response' = Some(ErrorResponse(400, "Invalid date format"))
                           /\ cache' = store
                           /\ UNCHANGED <<pc, args>>
                      ELSE /\ args' = Some([start_lat |-> r.start_latitude,
                                            start_lon |-> r.start_longitude,
                                            attraction_ids |-> r.attraction_ids,
                                            city |-> city[1],
                                            date |-> visit_date[1],
                                            start_hour |-> r.start_hour,
                                            preference_mode |-> r.preference_mode])
                           /\ cache' = store
                           /\ response' = Nothing
                           /\ pc' = "call"
    /\ ensure_initialized

\* POST /api/optimize arrives: the rate_limit decorator, then optimize()
ApiReceive ==
    /\ pc = "idle"
    /\ calls < Budget(pool)
    /\ pool = "wide" => calls = 0
    /\ calls' = calls + 1
    /\ via' = "api"
    /\ result' = Nothing
    /\ raised' = FALSE
    /\ _requests' = requests_after(_requests, ClientIp, now)
    /\ IF is_allowed(_requests, ClientIp, now)
       THEN optimize
       ELSE /\ response' = Some(RateLimitExceeded)
            /\ UNCHANGED <<pc, api_req, args, cache, _hits, _misses, store_vars>>
    /\ UNCHANGED <<others, stored_by, pool, now, sim_out, first, locals>>

\* A faulty handler: the failure body is stored in the cache
ApiRespondCachesFailure ==
    /\ pc = "returned"
    /\ via = "api"
    /\ \E full \in {IF raised
                     THEN [success |-> FALSE, error |-> "Optimization failed"]
                     ELSE result_to_dict(result[1])
                          @@ [success |-> TRUE, city |-> args[1].city,
                              _cached |-> FALSE]} :
          /\ response' = Some([status |-> IF raised THEN 500 ELSE 200, body |-> full])
          /\ cache' = cache_set(cache, RequestKey(api_req[1]), full, now)
    /\ stored_by' = WrittenBy(stored_by, RequestKey(api_req[1]), api_req[1])
    /\ pc' = "idle"
    /\ RecordFirst
    /\ ResetLocals
    /\ UNCHANGED <<others, _requests, _hits, _misses, pool, calls, now, via, api_req,
                   args, result, raised, sim_out, store_vars>>

\* POST /api/optimize after the optimizer: the except branch, or the response
\* and cache.set
ApiRespond ==
    /\ pc = "returned"
    /\ via = "api"
    /\ IF raised
       THEN /\ response' = Some(ErrorResponse(500, "Optimization failed"))
            /\ UNCHANGED <<cache, stored_by>>
       ELSE LET \* result.to_dict() with success, city and _cached added
                full == result_to_dict(result[1])
                        @@ [success |-> TRUE, city |-> args[1].city, _cached |-> FALSE]
            IN  /\ response' = Some([status |-> 200, body |-> full])
                /\ cache' = cache_set(cache, RequestKey(api_req[1]), full, now)
                /\ stored_by' = WrittenBy(stored_by, RequestKey(api_req[1]), api_req[1])
    /\ pc' = "idle"
    /\ RecordFirst
    /\ ResetLocals
    /\ UNCHANGED <<others, _requests, _hits, _misses, pool, calls, now, via, api_req,
                   args, result, raised, sim_out, store_vars>>

Next ==
    \/ Tick
    \/ Call
    \/ SimulateCall
    \/ Begin
    \/ SimulateNext
    \/ SimulateFault
    \/ Build
    \/ EngineReturn
    \/ ApiReceive
    \/ ApiRespond

Spec == Init /\ [][Next]_vars

\* ------------------------------------------------ concurrent first requests

\* several requests arrive together at a process whose data store does not
\* exist yet; each runs ensure_initialized() and then get_data_store()
InitThreads == InitPool("threads") /\ fn_in = Nothing

RequestFrame ==
    UNCHANGED <<pool, calls, now, pc, via, api_req, args, result, raised, response, cache,
                sim_out, first, locals, cache_aux, last_set, got, _requests, recent,
                decision, fn_in, fn_out, rl>>

\* ensure_initialized: "if not _initialized"
EiTest(t) ==
    /\ thr[t].pc = "ei_test"
    /\ thr' = [thr EXCEPT ![t].pc = IF _initialized THEN "use" ELSE "gds_test"]
    /\ UNCHANGED store_vars
    /\ RequestFrame

\* get_data_store: "if _store is None"
GdsTest(t) ==
    /\ thr[t].pc = "gds_test"
    /\ thr' = [thr EXCEPT ![t].pc = IF _store = Nothing THEN "gds_new" ELSE "gds_ret"]
    /\ UNCHANGED store_vars
    /\ RequestFrame

\* get_data_store: DataStore() reads the files and builds a new instance
GdsNew(t) ==
    /\ thr[t].pc = "gds_new"
    /\ constructed' = constructed + 1
    /\ thr' = [thr EXCEPT ![t].pc = "gds_assign", ![t].inst = constructed + 1]
    /\ UNCHANGED <<_store, _initialized>>
    /\ RequestFrame

\* get_data_store: "_store =" the new instance
GdsAssign(t) ==
    /\ thr[t].pc = "gds_assign"
    /\ _store' = Some(thr[t].inst)
    /\ thr' = [thr EXCEPT ![t].pc = "gds_ret"]
    /\ UNCHANGED <<_initialized, constructed>>
    /\ RequestFrame

\* get_data_store: "return _store", back in ensure_initialized
GdsReturn(t) ==
    /\ thr[t].pc = "gds_ret"
    /\ thr' = [thr EXCEPT ![t].pc = "ei_set"]
    /\ UNCHANGED store_vars
    /\ RequestFrame

\* ensure_initialized: "_initialized = True"
EiSet(t) ==
    /\ thr[t].pc = "ei_set"
    /\ _initialized' = TRUE
    /\ thr' = [thr EXCEPT ![t].pc = "use"]
    /\ UNCHANGED <<_store, constructed>>
    /\ RequestFrame

\* the handler's own "store = get_data_store()": the store exists by now and
\* the caller receives the instance _store names at the return
Use(t) ==
    /\ thr[t].pc = "use"
    /\ thr' = [thr EXCEPT ![t].pc = "done", ![t].got = _store[1]]
    /\ UNCHANGED store_vars
    /\ RequestFrame

NextThreads ==
    \/ \E t \in Threads : EiTest(t)
    \/ \E t \in Threads : GdsTest(t)
    \/ \E t \in Threads : GdsNew(t)
    \/ \E t \in Threads : GdsAssign(t)
    \/ \E t \in Threads : GdsReturn(t)
    \/ \E t \in Threads : EiSet(t)
    \/ \E t \in Threads : Use(t)

SpecThreads == InitThreads /\ [][NextThreads]_vars

\* ------------------------------------------------- a CacheStore taken alone

InitCache == InitPool("cache") /\ fn_in = Nothing

CacheFrame ==
    UNCHANGED <<pool, calls, pc, via, api_req, args, result, raised, response,
                sim_out, first, locals, store_vars, stored_by, thr, _requests, recent,
                decision, fn_in, fn_out, rl>>

\* cache.set(key, value, ttl)
CacheSet ==
    /\ \E key \in CacheKeys, value \in CacheValues, ttl \in CacheTtls :
          /\ cache' = CacheStore_set(cache, key, value, ttl, now)
          /\ last_set' = [last_set EXCEPT ![key] =
                              Some([value |-> value, at |-> now, ttl |-> ttl])]
    /\ got' = Nothing
    /\ UNCHANGED <<now, _hits, _misses>>
    /\ CacheFrame

\* cache.get(key)
CacheGet ==
    /\ _hits + _misses < MaxGets
    /\ \E key \in CacheKeys :
          /\ got' = Some([key |-> key, at |-> now,
                          value |-> cache_get_value(cache, key, now)])
          /\ cache' = cache_get_store(cache, key, now)
          /\ _hits' = cache_get_hits(_hits, cache, key, now)
          /\ _misses' = cache_get_misses(_misses, cache, key, now)
    /\ UNCHANGED <<now, last_set>>
    /\ CacheFrame

\* cache.delete(key)
CacheDelete ==
    /\ \E key \in CacheKeys :
          /\ cache' = CacheStore_delete(cache, key)
          /\ last_set' = [last_set EXCEPT ![key] = Nothing]
    /\ got' = Nothing
    /\ UNCHANGED <<now, _hits, _misses>>
    /\ CacheFrame

\* cache.clear()
CacheClear ==
    /\ cache' = <<>>
    /\ last_set' = [key \in CacheKeys |-> Nothing]
    /\ got' = Nothing
    /\ UNCHANGED <<now, _hits, _misses>>
    /\ CacheFrame

\* cache.cleanup(), as cache.stats runs it
CacheCleanup ==
    /\ cache' = CacheStore_cleanup(cache, now)
    /\ got' = Nothing
    /\ UNCHANGED <<now, _hits, _misses, last_set>>
    /\ CacheFrame

\* time passes between two operations
CacheTick ==
    /\ \E t \in {1, default_ttl, default_ttl + 1, default_ttl + 2} :
          /\ now < t
          /\ t <= MaxNow
          /\ now' = t
    /\ got' = Nothing
    /\ UNCHANGED <<cache, _hits, _misses, last_set>>
    /\ CacheFrame

NextCache ==
    \/ CacheSet
    \/ CacheGet
    \/ CacheDelete
    \/ CacheClear
    \/ CacheCleanup
    \/ CacheTick

SpecCache == InitCache /\ [][NextCache]_vars

\* --------------------------------------------- the rate limiter taken alone

InitRate == InitPool("rate") /\ fn_in = Nothing

RateFrame ==
    UNCHANGED <<pool, calls, pc, via, api_req, args, result, raised, cache,
                sim_out, first, locals, store_vars, cache_aux, thr, last_set, got,
                fn_in, fn_out, rl>>

\* the part of a list of admission times that is less than 60 s old at t
StillRecent(l, t) ==
    LET Young(x) == t - x < 60
    IN  SelectSeq(l, Young)

\* a request of a client reaches a rate limited endpoint; requests are
\* handled one at a time
RateRequest ==
    /\ \E client \in RateClients :
          /\ client # ClientIp => Len(ListOf(_requests, client)) < MaxOther
          /\ _requests' = requests_after(_requests, client, now)
          /\ decision' = Some([client |-> client,
                               allowed |-> is_allowed(_requests, client, now),
                               before |-> Len(recent[client])])
          /\ IF is_allowed(_requests, client, now)
             THEN /\ response' = Some([status |-> 200, body |-> [success |-> TRUE]])
                  /\ recent' = [recent EXCEPT ![client] = Append(@, now)]
             ELSE /\ response' = Some(RateLimitExceeded)
                  /\ UNCHANGED recent
    /\ UNCHANGED now
    /\ RateFrame

\* time passes between two requests
RateTick ==
    /\ \E t \in {1, window} :
          /\ now < t
          /\ t <= MaxNow
          /\ now' = t
          /\ recent' = [c \in RateClients |-> StillRecent(recent[c], t)]
    /\ decision' = Nothing
    /\ UNCHANGED <<_requests, response>>
    /\ RateFrame

NextRate ==
    \/ RateRequest
    \/ RateTick

SpecRate == InitRate /\ [][NextRate]_vars

\* ------------------------------- is_allowed entered by concurrent requests
\* The server handles each request on a thread of its own and is_allowed
\* takes no lock: requests of one client interleave between its statements.

InitRateThreads == InitPool("limiter") /\ fn_in = Nothing

RateThreadsFrame ==
    UNCHANGED <<pool, calls, pc, via, api_req, args, result, raised, response, cache,
                sim_out, first, locals, store_vars, cache_aux, thr, last_set, got,
                decision, fn_in, fn_out>>

\* no thread has entered is_allowed yet
NoneStarted == \A t \in Threads : rl[t].pc = "start"

\* _requests with the client's list replaced by l
WithList(reqs, client, l) ==
    [c \in DOMAIN reqs \cup {client} |-> IF c = client THEN l ELSE reqs[c]]

\* an earlier request of the client went through is_allowed on its own,
\* before the concurrent ones arrive
RlEarlier ==
    /\ NoneStarted
    /\ now = 0
    /\ is_allowed(_requests, ClientIp, now)
    /\ _requests' = requests_after(_requests, ClientIp, now)
    /\ recent' = [recent EXCEPT ![ClientIp] = Append(@, now)]
    /\ UNCHANGED <<now, rl>>
    /\ RateThreadsFrame

\* a window passes before the concurrent requests arrive
RlTick ==
    /\ NoneStarted
    /\ now = 0
    /\ now' = window
    /\ recent' = [c \in RateClients |-> StillRecent(recent[c], window)]
    /\ UNCHANGED <<_requests, rl>>
    /\ RateThreadsFrame

\* "now = time.time()" and "if client_ip not in self._requests"
RlTest(t) ==
    /\ rl[t].pc = "start"
    /\ rl' = [rl EXCEPT ![t].now = now,
                        ![t].pc = IF ClientIp \in DOMAIN _requests THEN "clean"
                                  ELSE "init"]
    /\ UNCHANGED <<now, _requests, recent>>
    /\ RateThreadsFrame

\* "self._requests[client_ip] = []"
RlInit(t) ==
    /\ rl[t].pc = "init"
    /\ _requests' = WithList(_requests, ClientIp, <<>>)
    /\ rl' = [rl EXCEPT ![t].pc = "clean"]
    /\ UNCHANGED <<now, recent>>
    /\ RateThreadsFrame

\* the list comprehension reads the client's list and builds the new one
RlCleanRead(t) ==
    /\ rl[t].pc = "clean"
    /\ rl' = [rl EXCEPT ![t].kept = Kept(ListOf(_requests, ClientIp), rl[t].now),
                        ![t].pc = "assign"]
    /\ UNCHANGED <<now, _requests, recent>>
    /\ RateThreadsFrame

\* "self._requests[client_ip] = [...]": the new list replaces the current one
RlCleanAssign(t) ==
    /\ rl[t].pc = "assign"
    /\ _requests' = WithList(_requests, ClientIp, rl[t].kept)
    /\ rl' = [rl EXCEPT ![t].pc = "check"]
    /\ UNCHANGED <<now, recent>>
    /\ RateThreadsFrame

\* "if len(self._requests[client_ip]) >= self.max_requests: return False"
RlCheck(t) ==
    /\ rl[t].pc = "check"
    /\ rl' = [rl EXCEPT ![t].pc = IF Len(ListOf(_requests, ClientIp)) >= max_requests
                                  THEN "denied" ELSE "append"]
    /\ UNCHANGED <<now, _requests, recent>>
    /\ RateThreadsFrame

\* "self._requests[client_ip].append(now)" and "return True": the request
\* is admitted
RlAppend(t) ==
    /\ rl[t].pc = "append"
    /\ _requests' = WithList(_requests, ClientIp,
                             Append(ListOf(_requests, ClientIp), rl[t].now))
    /\ recent' = [recent EXCEPT ![ClientIp] = Append(@, rl[t].now)]
    /\ rl' = [rl EXCEPT ![t].pc = "admitted"]
    /\ UNCHANGED now
    /\ RateThreadsFrame

NextRateThreads ==
    \/ RlEarlier
    \/ RlTick
    \/ \E t \in Threads : RlTest(t)
    \/ \E t \in Threads : RlInit(t)
    \/ \E t \in Threads : RlCleanRead(t)
    \/ \E t \in Threads : RlCleanAssign(t)
    \/ \E t \in Threads : RlCheck(t)
    \/ \E t \in Threads : RlAppend(t)

SpecRateThreads == InitRateThreads /\ [][NextRateThreads]_vars

\* --------------------------------- the lookups and the estimator on their own

Cities == {"Madrid", "MADRID", "Seville"}

Zones == {"Central", "Business", "Tourist Cluster", "Harbour"}

\* places a trip can start or end at
Places ==
    { [lat |-> Hotel.lat, lon |-> Hotel.lon],
      [lat |-> attractions_by_id["a1"].latitude, lon |-> attractions_by_id["a1"].longitude],
      [lat |-> attractions_by_id["a3"].latitude, lon |-> attractions_by_id["a3"].longitude],
      [lat |-> attractions_by_id["a4"].latitude, lon |-> attractions_by_id["a4"].longitude] }

\* arguments of get_traffic_index
TrafficInputs ==
    { [f |-> "traffic", city |-> c, zone |-> z, day_type |-> d, hour |-> h] :
      c \in Cities, z \in Zones, d \in {"weekday", "weekend"}, h \in 0..25 }

\* arguments of get_event_congestion_multiplier
EventInputs ==
    { [f |-> "event", city |-> c, zone |-> z, day_name |-> DayName(w)] :
      c \in Cities, z \in Zones, w \in 0..6 }

\* arguments of two calls of estimate_travel_time that differ in the hour
TravelInputs ==
    { [f |-> "travel", origin |-> o, dest |-> d, city |-> c, day_type |-> t,
       month |-> m, h1 |-> h1, h2 |-> h2] :
      o \in Places, d \in Places, c \in {"Madrid", "Seville"},
      t \in {"weekday", "weekend"}, m \in {1, 6, 7},
      h1 \in {8, 12, 17, 22}, h2 \in {8, 12, 17, 22} }

\* arguments of one call of estimate_travel_time: places of the tables and a
\* place 9 km north of them, cities with and without rows in the tables, months
\* with and without a seasonal row, hours inside and outside 0..23
EstimateInputs ==
    { [f |-> "estimate", origin |-> o, dest |-> d, city |-> c, day_type |-> t,
       month |-> m, hour |-> h] :
      o \in Places \cup {[lat |-> 4050000, lon |-> -370500]}, d \in Places,
      c \in {"Madrid", "Seville", "Atlantis"},
      t \in {"weekday", "weekend", "holiday"}, m \in {1, 6, 8},
      h \in {-1, 3, 8, 25} }

\* the category and the heat_sensitive flag of a point of interest ("" for a
\* point without a category)
Points ==
    { [category |-> c, heat_sensitive |-> b] :
      c \in {"outdoor", "indoor", "landmark", "market", ""}, b \in BOOLEAN }

\* arguments of two calls of compute_heat_impact that differ in the point
HeatInputs ==
    { [f |-> "heat", city |-> c, month |-> m, hour |-> h, point |-> x, other |-> y] :
      c \in {"Madrid", "Seville"}, m \in {1, 6, 7}, h \in {3, 10, 14, 20, 38},
      x \in Points, y \in Points }

\* the stop lists that arrange the stops of list l in another order, and l
Reorderings(l) ==
    { [i \in 1..Len(l) |-> l[p[i]]] : p \in IndexPerms(Len(l)) }

\* arguments of two calls of optimize_itinerary that differ in the order of
\* the stop list: distinct known ids, two of them (a4, a5) alike
OptimizeInputs ==
    { [f |-> "optimize", other |-> o,
       a |-> [start_lat |-> q.start_lat, start_lon |-> q.start_lon,
              attraction_ids |-> l, city |-> q.city, date |-> fromisoformat(q.date)[1],
              start_hour |-> q.start_hour, preference_mode |-> q.preference_mode]] :
      q \in { DefaultParams,
              [DefaultParams EXCEPT !.preference_mode = "comfort", !.start_hour = 17],
              [DefaultParams EXCEPT !.date = "2025-06-14"] },
      l \in Reorderings(<< "a1", "a2", "a3" >>) \cup Reorderings(<< "a4", "a5", "a1" >>)
            \cup { << "a2" >>, << "a8", "a6", "a7", "a3" >> },
      o \in Reorderings(<< "a1", "a2", "a3" >>) \cup Reorderings(<< "a4", "a5", "a1" >>)
            \cup Reorderings(<< "a8", "a6", "a7", "a3" >>) \cup { << "a2" >> } }

InitFn ==
    /\ InitPool("fn")
    /\ fn_in \in {Some(x) : x \in TrafficInputs \cup EventInputs \cup TravelInputs
                                  \cup EstimateInputs \cup HeatInputs
                                  \cup {y \in OptimizeInputs :
                                           SameStops(y.a.attraction_ids, y.other)}}

FnFrame ==
    UNCHANGED <<pool, calls, now, pc, via, api_req, args, result, raised, response, cache,
                sim_out, first, locals, store_vars, cache_aux, _requests, thr, last_set,
                got, recent, decision, fn_in, rl>>

\* store.get_traffic_index(city, zone, day_type, hour)
CallTrafficIndex ==
    /\ fn_out = Nothing
    /\ fn_in[1].f = "traffic"
    /\ fn_out' = Some(get_traffic_index(fn_in[1].city, fn_in[1].zone, fn_in[1].day_type,
                                        fn_in[1].hour))
    /\ FnFrame

\* store.get_event_congestion_multiplier(city, zone, day_name)
CallEventMultiplier ==
    /\ fn_out = Nothing
    /\ fn_in[1].f = "event"
    /\ fn_out' = Some(get_event_congestion_multiplier(fn_in[1].city, fn_in[1].zone,
                                                      fn_in[1].day_name))
    /\ FnFrame

\* estimate_travel_time at hour h1 and at hour h2, all else equal
CallEstimateTwice ==
    /\ fn_out = Nothing
    /\ fn_in[1].f = "travel"
    /\ \E x \in {fn_in[1]} :
          fn_out' = Some([at_h1 |-> estimate_travel_time(x.origin.lat, x.origin.lon,
                                       x.dest.lat, x.dest.lon, x.city, x.h1, x.day_type,
                                       x.month),
                          at_h2 |-> estimate_travel_time(x.origin.lat, x.origin.lon,
                                       x.dest.lat, x.dest.lon, x.city, x.h2, x.day_type,
                                       x.month)])
    /\ FnFrame

\* estimate_travel_time(origin_lat, origin_lon, dest_lat, dest_lon, city, hour,
\* day_type, month)
CallEstimate ==
    /\ fn_out = Nothing
    /\ fn_in[1].f = "estimate"
    /\ \E x \in {fn_in[1]} :
          fn_out' = Some(estimate_travel_time(x.origin.lat, x.origin.lon, x.dest.lat,
                                              x.dest.lon, x.city, x.hour, x.day_type,
                                              x.month))
    /\ FnFrame

\* compute_heat_impact for a point and for another one, all else equal
CallHeatImpactTwice ==
    /\ fn_out = Nothing
    /\ fn_in[1].f = "heat"
    /\ \E x \in {fn_in[1]} :
          fn_out' = Some([at_point |-> compute_heat_impact(x.city, x.month, x.hour, x.point),
                          at_other |-> compute_heat_impact(x.city, x.month, x.hour, x.other)])
    /\ FnFrame

\* optimize_itinerary on a stop list and on the same stops in another
\* order, all else equal
CallOptimizeTwice ==
    /\ fn_out = Nothing
    /\ fn_in[1].f = "optimize"
    /\ \E x \in {fn_in[1]} :
          fn_out' = Some([at_ids |-> optimize_itinerary(x.a),
                          at_other |-> optimize_itinerary(
                                          [x.a EXCEPT !.attraction_ids = x.other])])
    /\ FnFrame

NextFn ==
    \/ CallTrafficIndex
    \/ CallEventMultiplier
    \/ CallEstimateTwice
    \/ CallEstimate
    \/ CallHeatImpactTwice
    \/ CallOptimizeTwice

SpecFn == InitFn /\ [][NextFn]_vars

\* ------------------------------------------------------------ the properties

\* optimize_itinerary has returned a result to its caller's frame
Returned == pc = "returned" /\ ~raised

\* the ids of the current call that are keys of the attraction table
KnownOfCall == SelectSeq(args[1].attraction_ids, IsKnown)

\* n of the current call: how many ids of its stop list the store knows
NValid == Len(KnownOfCall)

LegIds(legs) == [i \in 1..Len(legs) |-> legs[i].attraction_id]

\* the first position of s that holds the lowest total score
FirstLowest(s) ==
    CHOOSE i \in 1..Len(s) :
        /\ \A j \in 1..Len(s) : s[i].total_score <= s[j].total_score
        /\ \A j \in 1..(i - 1) : s[j].total_score # s[i].total_score

Count(s, x) == Cardinality({i \in 1..Len(s) : s[i] = x})

\* the two sequences hold the same elements the same number of times
SameBag(s, t) ==
    /\ Len(s) = Len(t)
    /\ \A i \in 1..Len(s) : Count(s, s[i]) = Count(t, s[i])

\* C1: when a call of optimize_itinerary with n known ids, 1 <= n <= 7, has
\* returned, permutations_evaluated is n! and simulate_timeline has been run
\* n! times
C1_PermutationCount ==
    (Returned /\ NValid \in 1..7) =>
        /\ result[1].permutations_evaluated = factorial(NValid)
        /\ sims = factorial(NValid)
        /\ sims = << 1, 2, 6, 24, 120, 720, 5040 >>[NValid]

C1_Witness ==
    /\ Returned
    /\ NValid = 7
    /\ sims = 5040
    /\ result[1].permutations_evaluated = 5040

\* C2: the returned total_impact_score is at most the total score of every
\* entry of all_scores, which has one entry per simulated permutation, and it
\* is the score of one of them
C2_WinnerIsMinimum ==
    (Returned /\ NValid >= 1) =>
        /\ Len(result[1].all_scores) = sims
        /\ \A i \in 1..Len(result[1].all_scores) :
              result[1].total_impact_score <= result[1].all_scores[i].total_score
        /\ \E i \in 1..Len(result[1].all_scores) :
              result[1].total_impact_score = result[1].all_scores[i].total_score

C2_Witness ==
    /\ Returned
    /\ NValid >= 2
    /\ \E i \in 1..Len(result[1].all_scores) :
          result[1].total_impact_score < result[1].all_scores[i].total_score

\* the winner the loop holds is the permutation simulated at position i
WinnerIsAt(i) ==
    /\ best_score = all_scores[i].total_score
    /\ PermNames(best_perm) = all_scores[i].permutation
    /\ LegIds(best_legs) = best_perm

\* C3: the first permutation enumerated is the (valid) input order; when the
\* loop is over the winner is the first permutation, in enumeration order,
\* that has the lowest total score; and that winner is the route returned
C3_FirstSeenWinsTies ==
    /\ (pc = "loop" /\ k = 0) => PermIds(valid_ids, perm[1]) = valid_ids
    /\ (pc = "loop" /\ perm = Nothing) => WinnerIsAt(FirstLowest(all_scores))
    /\ (Returned /\ NValid >= 1) => LegIds(result[1].timeline) = best_perm

\* two different orderings tie on the lowest total score
C3_Witness ==
    /\ pc = "loop"
    /\ perm = Nothing
    /\ \E i \in 1..Len(all_scores) : \E j \in (i + 1)..Len(all_scores) :
          /\ all_scores[i].total_score = best_score
          /\ all_scores[j].total_score = best_score
          /\ all_scores[i].permutation # all_scores[j].permutation
          /\ PermNames(best_perm) = all_scores[i].permutation

\* C4: the orderings simulated for one request are pairwise distinct (the
\* names of all_scores identify the stops: no two attractions share a name)
C4_OrderingsDistinct ==
    pc = "loop" =>
        \A i \in 1..Len(all_scores) : \A j \in (i + 1)..Len(all_scores) :
            all_scores[i].permutation # all_scores[j].permutation

\* C5: for 1..7 known ids the returned timeline has one leg per known id,
\* ordered_route has the ranks 1..n in order and names the stop of the leg
\* at the same position
C5_RouteMatchesTimeline ==
    (Returned /\ NValid \in 1..7) =>
        /\ Len(result[1].timeline) = NValid
        /\ Len(result[1].ordered_route) = NValid
        /\ SameBag(LegIds(result[1].timeline), KnownOfCall)
        /\ \A i \in 1..NValid :
              /\ result[1].ordered_route[i].order = i
              /\ result[1].ordered_route[i].attraction_id
                    = result[1].timeline[i].attraction_id

\* a returned route of three stops that is not the input order
C5_Witness ==
    /\ Returned
    /\ NValid = 3
    /\ Len(result[1].ordered_route) = 3
    /\ result[1].ordered_route[3].order = 3
    /\ LegIds(result[1].timeline) # KnownOfCall

\* simulate_timeline applied to the arguments of a call
SimOf(a) ==
    simulate_timeline(a.start_lat, a.start_lon, a.attraction_ids, a.city, a.date,
                      a.start_hour, a.preference_mode)

\* C6: an unknown id yields no leg, and a stop list with unknown ids gives
\* the result of the list without them: for optimize_itinerary against the
\* first call that returned, for simulate_timeline against its value on the
\* cleaned list
C6_UnknownIdsDropped ==
    /\ Returned =>
          \A i \in 1..Len(result[1].timeline) :
              IsKnown(result[1].timeline[i].attraction_id)
    /\ (Returned /\ first # Nothing /\ Cleaned(args[1]) = Cleaned(first[1].args)) =>
          result[1] = first[1].result
    /\ (sim_out # Nothing /\ via = "sim") =>
          /\ Len(sim_out[1].legs) = NValid
          /\ sim_out[1] = SimOf(Cleaned(args[1]))

\* a list and the same list with an unknown id in it have both been
\* optimized, with the same result
C6_Witness ==
    /\ Returned
    /\ first # Nothing
    /\ args[1] # first[1].args
    /\ Cleaned(args[1]) = Cleaned(first[1].args)
    /\ NValid >= 2
    /\ result[1] = first[1].result

\* C7: when no id is known, optimize_itinerary returns (it does not raise)
\* a result with no leg and no route entry, 0 permutations, a message, and
\* the aggregates at zero (the impact breakdown is the empty mapping)
C7_DegradedResult ==
    (pc = "returned" /\ NValid = 0) =>
        /\ ~raised
        /\ result # Nothing
        /\ result[1].timeline = <<>>
        /\ result[1].ordered_route = <<>>
        /\ result[1].permutations_evaluated = 0
        /\ sims = 0
        /\ result[1].explanation # <<>>
        /\ result[1].total_travel_time = 0
        /\ result[1].total_visit_time = 0
        /\ result[1].total_impact_score = 0
        /\ result[1].impact_breakdown = <<>>

\* a request whose ids are all unknown has returned
C7_Witness ==
    /\ pc = "returned"
    /\ NValid = 0
    /\ Len(args[1].attraction_ids) >= 2
    /\ result # Nothing
    /\ result[1].explanation # <<>>

\* C8: with more than 7 known ids the first 7 are kept in their order, 5040
\* permutations are evaluated and the 7 legs returned are those 7 stops,
\* none of them a discarded one
C8_TruncatesToSeven ==
    /\ (pc = "loop" /\ NValid > 7) =>
          /\ valid_ids = SubSeq(KnownOfCall, 1, 7)
          /\ num_perms = 5040
    /\ (Returned /\ NValid > 7) =>
          /\ result[1].permutations_evaluated = 5040
          /\ sims = 5040
          /\ Len(result[1].timeline) = 7
          /\ SameBag(LegIds(result[1].timeline), SubSeq(KnownOfCall, 1, 7))
          /\ \A j \in 8..NValid : \A i \in 1..7 :
                KnownOfCall[j] \in {KnownOfCall[x] : x \in 1..7}
                \/ result[1].timeline[i].attraction_id # KnownOfCall[j]

\* a request with 8 known ids has returned 7 legs
C8_Witness ==
    /\ Returned
    /\ NValid = 8
    /\ Len(result[1].timeline) = 7
    /\ result[1].permutations_evaluated = 5040

C10_FailureIsFatal ==
    /\ raised => (pc \in {"returned", "idle"} /\ result = Nothing)
    /\ (raised /\ via = "api" /\ pc = "idle") =>
          /\ response # Nothing
          /\ response[1].status = 500
          /\ response[1].body.success = FALSE
          /\ RequestKey(api_req[1]) \notin DOMAIN cache

\* a failed API request has been answered while the cache holds the
\* result of another request
C10_Witness ==
    /\ raised
    /\ via = "api"
    /\ pc = "idle"
    /\ response[1].status = 500
    /\ DOMAIN cache # {}

\* the score the optimizer records for an ordering, whatever its place in
\* the enumeration, is the score of that ordering simulated on its own
\* before the call; the store is still the instance built for that
\* simulation
AloneOrInTheLoop ==
    (sim_out # Nothing /\ via = "engine" /\ pc \in {"loop", "returned"} /\ ~raised) =>
        /\ _store = Some(1)
        /\ \A i \in 1..Len(all_scores) :
              all_scores[i].permutation = PermNames(LegIds(sim_out[1].legs)) =>
                 /\ all_scores[i].total_score = sim_out[1].itinerary_score.total_score
                 /\ all_scores[i].avg_score = sim_out[1].itinerary_score.avg_score

C12_SingleInstance ==
    /\ constructed <= 1
    /\ \A t1, t2 \in Threads :
          (thr[t1].pc = "done" /\ thr[t2].pc = "done") => thr[t1].got = thr[t2].got

\* C13: a response served from the cache was stored by a request with the
\* same parameters: requests that differ in a parameter have different keys.
C13_KeyPerRequest ==
    (via = "api" /\ pc = "idle" /\ response # Nothing /\ response[1].status = 200
     /\ response[1].body._cached) =>
        stored_by[RequestKey(api_req[1])] = api_req[1]

\* the ttl a set() was given: the default when none was given
TtlOf(w) == IF w.ttl = Nothing THEN default_ttl ELSE w.ttl[1]

\* the value get(key) owes at time t: that of the last set of the key, if no
\* delete or clear came after it and it is no older than its ttl
Owed(key, t) ==
    IF last_set[key] # Nothing /\ t - last_set[key][1].at <= TtlOf(last_set[key][1])
    THEN Some(last_set[key][1].value)
    ELSE Nothing

\* C14: get(k) returns the value of the most recent set(k, v) if and only if
\* that set is no older than its TTL and no delete(k) or clear() came after
\* it, and None otherwise; a get that finds an expired entry removes it.
C14_GetReturnsLiveLastSet ==
    got # Nothing =>
        /\ got[1].value = Owed(got[1].key, got[1].at)
        /\ got[1].value = Nothing => got[1].key \notin DOMAIN cache

\* the same for the sets that were given no ttl or a positive one
GetReturnsLiveLastSetPositiveTtl ==
    (got # Nothing /\ \A key \in CacheKeys :
                          last_set[key] = Nothing \/ last_set[key][1].ttl # Some(0)) =>
        /\ got[1].value = Owed(got[1].key, got[1].at)
        /\ got[1].value = Nothing => got[1].key \notin DOMAIN cache

\* C15: for each client, requests handled one at a time: no more than 60
\* admitted requests are less than 60 s old at any time; a request is
\* rejected, with status 429, exactly when 60 admitted requests of its client
\* are less than 60 s old; a rejected request is not recorded; and what the
\* limiter holds for a client is that client's admitted requests only.
C15_SixtyPerWindow ==
    /\ \A c \in RateClients :
          /\ Len(recent[c]) <= 60
          /\ StillRecent(ListOf(_requests, c), now) = recent[c]
    /\ decision # Nothing =>
          /\ decision[1].allowed <=> decision[1].before < 60
          /\ ~decision[1].allowed <=> response[1].status = 429
          /\ Len(recent[decision[1].client])
                = decision[1].before + (IF decision[1].allowed THEN 1 ELSE 0)

\* a client is rejected while another client has an admitted request on
\* record, and some of the 60 requests that block it are 59 s old
C15_Witness ==
    /\ decision # Nothing
    /\ ~decision[1].allowed
    /\ decision[1].client = ClientIp
    /\ now = window
    /\ Len(ListOf(_requests, "10.0.0.2")) = 1
    /\ response[1].status = 429

\* a parsed body that fails validation: empty id list, more than 7 ids,
\* unknown preference mode, start hour outside 0..23, coordinates out of
\* range, or a date that is no ISO date
FailsValidation(r) ==
    \/ r.attraction_ids = <<>>
    \/ Len(r.attraction_ids) > 7
    \/ r.preference_mode \notin {"comfort", "fastest", "balanced"}
    \/ r.start_hour < 0
    \/ r.start_hour > 23
    \/ r.start_latitude < -9000000
    \/ r.start_latitude > 9000000
    \/ r.start_longitude < -18000000
    \/ r.start_longitude > 18000000
    \/ r.date \notin {"2025-07-15", "2025-06-14", "2025-08-31"}

\* the rate limiter rejected the request
TurnedAway(resp) == resp # Nothing /\ resp[1].status = 429

\* the response is a 400 with success = false
IsBadRequest(resp) ==
    /\ resp # Nothing
    /\ resp[1].status = 400
    /\ resp[1].body.success = FALSE

\* C16: an admitted POST /api/optimize whose body is missing, cannot be
\* parsed or fails validation is answered with status 400 and success =
\* false; the optimizer is not entered, and the cache is neither read (its
\* counters and entries stay) nor written.
C16_InvalidBodyIsRejected ==
    [][(calls' = calls + 1 /\ via' = "api" /\ ~TurnedAway(response')
        /\ (api_req' = Nothing \/ FailsValidation(api_req'[1])))
       => /\ IsBadRequest(response')
          /\ pc' = "idle"
          /\ sims' = sims
          /\ cache' = cache
          /\ _hits' = _hits
          /\ _misses' = _misses
          /\ stored_by' = stored_by]_vars

\* a request with start hour 24 has been answered with status 400 without
\* a cache lookup
C16_Witness ==
    /\ via = "api"
    /\ pc = "idle"
    /\ api_req # Nothing
    /\ api_req[1].start_hour = 24
    /\ api_req[1].date = "2025-07-15"
    /\ IsBadRequest(response)
    /\ _hits + _misses = 0

\* the row of the congestion table under the lower-cased city and the hour
\* of the day
TrafficRow(city, zone, day_type, hour) ==
    traffic_lookup(Lower(city), zone, day_type, hour % 24)

\* C17: get_traffic_index returns the table value of (city, zone, day type,
\* hour) when there is one, else that of the Central zone when there is
\* one, else 0.3, and nothing else.
C17_TrafficIndexFallback ==
    (fn_out # Nothing /\ fn_in[1].f = "traffic") =>
        LET x == fn_in[1]
            own == TrafficRow(x.city, x.zone, x.day_type, x.hour)
            central == TrafficRow(x.city, "Central", x.day_type, x.hour)
        IN  /\ own # Missing => fn_out[1] = own
            /\ (own = Missing /\ central # Missing) => fn_out[1] = central
            /\ (own = Missing /\ central = Missing) => fn_out[1] = 300

\* the Business zone has no weekend rows: the Central value is returned
C17_Witness ==
    /\ fn_out # Nothing
    /\ fn_in[1].f = "traffic"
    /\ fn_in[1].zone = "Business"
    /\ fn_in[1].day_type = "weekend"
    /\ fn_in[1].city = "MADRID"
    /\ fn_in[1].hour = 12
    /\ fn_out[1] = 450

\* the multipliers of the venues that match the city, the zone and the day
MatchingMultipliers(city, zone, day_name) ==
    { venues[i].congestion_multiplier :
        i \in { j \in 1..Len(venues) : /\ Lower(venues[j].city) = Lower(city)
                                       /\ venues[j].affected_zone = zone
                                       /\ day_name \in venues[j].typical_event_days } }

\* C18: get_event_congestion_multiplier returns the largest multiplier of
\* the matching venues, 1.0 when none matches; it is never below 1.0 and,
\* with several matching venues, neither their sum nor their product.
C18_EventMultiplierIsMax ==
    (fn_out # Nothing /\ fn_in[1].f = "event") =>
        LET ms == MatchingMultipliers(fn_in[1].city, fn_in[1].zone, fn_in[1].day_name)
        IN  /\ ms = {} => fn_out[1] = 100
            /\ ms # {} => (fn_out[1] \in ms /\ \A m \in ms : m <= fn_out[1])
            /\ fn_out[1] >= 100
            /\ Cardinality(ms) = 2 =>
                  \A m1, m2 \in ms :
                      m1 # m2 => (fn_out[1] # m1 + m2 /\ fn_out[1] * 100 # m1 * m2)

\* two venues of the Business zone match a Saturday: the larger one counts
C18_Witness ==
    /\ fn_out # Nothing
    /\ fn_in[1].f = "event"
    /\ fn_in[1].zone = "Business"
    /\ fn_in[1].day_name = "Saturday"
    /\ Cardinality(MatchingMultipliers(fn_in[1].city, fn_in[1].zone,
                                       fn_in[1].day_name)) = 2
    /\ fn_out[1] = 140

\* C19: when the congestion table gives both zones of a trip a higher value
\* at hour h1 than at hour h2, all else equal, the duration estimated at h1
\* is strictly greater than the duration estimated at h2.
C19_MoreCongestionIsSlower ==
    (fn_out # Nothing /\ fn_in[1].f = "travel") =>
        LET x == fn_in[1]
            r1 == fn_out[1].at_h1
            r2 == fn_out[1].at_h2
        IN  (/\ get_traffic_index(x.city, r1.origin_zone, x.day_type, x.h1)
                  > get_traffic_index(x.city, r1.origin_zone, x.day_type, x.h2)
             /\ get_traffic_index(x.city, r1.dest_zone, x.day_type, x.h1)
                  > get_traffic_index(x.city, r1.dest_zone, x.day_type, x.h2))
            => r1.duration_minutes > r2.duration_minutes

\* the same, never faster
MoreCongestionIsNotFaster ==
    (fn_out # Nothing /\ fn_in[1].f = "travel") =>
        LET x == fn_in[1]
            r1 == fn_out[1].at_h1
            r2 == fn_out[1].at_h2
        IN  (/\ get_traffic_index(x.city, r1.origin_zone, x.day_type, x.h1)
                  > get_traffic_index(x.city, r1.origin_zone, x.day_type, x.h2)
             /\ get_traffic_index(x.city, r1.dest_zone, x.day_type, x.h1)
                  > get_traffic_index(x.city, r1.dest_zone, x.day_type, x.h2))
            => r1.duration_minutes >= r2.duration_minutes

\* where and when leg i of a timeline must start: at the start location at
\* start_hour:00 for the first leg, at the previous stop when its visit ends
\* for the others
LegOrigin(legs, a, i) ==
    IF i = 1
    THEN [time |-> a.start_hour * 600, name |-> "Start Location",
          lat |-> a.start_lat, lon |-> a.start_lon]
    ELSE [time |-> legs[i - 1].visit_end,
          name |-> attractions_by_id[legs[i - 1].attraction_id].name,
          lat |-> attractions_by_id[legs[i - 1].attraction_id].latitude,
          lon |-> attractions_by_id[legs[i - 1].attraction_id].longitude]

\* the road distance (1e-2 km) from a place to an attraction
RoadFrom(o, attr, city) ==
    RoundDiv(Max(haversine_km(o.lat, o.lon, attr.latitude, attr.longitude)
                 * DETOUR_FACTORS(Lower(city)), 30000), 1000)

\* leg i of the timeline continues the chain
LegContinues(legs, a, i, o, attr) ==
    /\ legs[i].travel_start = o.time
    /\ legs[i].travel_from = o.name
    /\ legs[i].travel_distance_km = RoadFrom(o, attr, a.city)
    /\ legs[i].travel_duration_min > 0
    /\ legs[i].travel_end = legs[i].travel_start + legs[i].travel_duration_min
    /\ legs[i].visit_start = legs[i].travel_end
    /\ legs[i].visit_end = legs[i].visit_start + attr.average_visit_duration * 10

ChainHolds(legs, a) ==
    \A i \in 1..Len(legs) :
        LegContinues(legs, a, i, LegOrigin(legs, a, i),
                     attractions_by_id[legs[i].attraction_id])

\* C20: in every timeline simulate_timeline produces, the first leg leaves
\* "Start Location" at start_hour:00, every leg ends its travel one travel
\* duration after its start, starts the visit then and ends it one average
\* visit duration later, and every later leg leaves the previous stop, by
\* name and by coordinates, when that stop's visit ends.
C20_TimelineIsOneChain ==
    /\ (sim_out # Nothing /\ via = "sim") => ChainHolds(sim_out[1].legs, args[1])
    /\ (pc = "loop" /\ via # "sim") => ChainHolds(best_legs, args[1])

\* a direct simulation of three stops from 17:00
C20_Witness ==
    /\ sim_out # Nothing
    /\ via = "sim"
    /\ args[1].start_hour = 17
    /\ Len(sim_out[1].legs) = 3
    /\ sim_out[1].legs[1].travel_start = 17 * 600
    /\ sim_out[1].legs[3].travel_from = sim_out[1].legs[2].attraction_name
    /\ sim_out[1].legs[3].travel_start = sim_out[1].legs[2].visit_end
    /\ sim_out[1].legs[3].travel_start > sim_out[1].legs[1].visit_end

\* "weekend" or "weekday" of a date
DayTypeOf(date) == IF date.weekday >= 5 THEN "weekend" ELSE "weekday"

\* the travel estimate from a place to an attraction for a travel that
\* starts in hour h
TravelAt(o, attr, a, h) ==
    estimate_travel_time(o.lat, o.lon, attr.latitude, attr.longitude, a.city, h,
                         DayTypeOf(a.date), a.date.month)

\* the volatility (1e-3) the scorer is given for a volatility vol (1e-3) and
\* an event multiplier mult (1e-2)
VolatilityGiven(vol, mult) ==
    IF mult > 100 THEN RoundDiv(Min(vol * 12, 10000), 10) ELSE vol

\* leg i takes its travel estimate and its volatility from the hour of its
\* travel start, its heat impact and its crowd factor from the hour of its
\* visit start
LegHours(legs, a, i, o, attr) ==
    LET departure == HourOf(legs[i].travel_start)
        arrival == HourOf(legs[i].visit_start)
        travel == TravelAt(o, attr, a, departure)
        mult == get_event_congestion_multiplier(a.city, travel.dest_zone,
                                                DayName(a.date.weekday))
    IN  /\ legs[i].travel_duration_min = travel.duration_minutes
        /\ legs[i].impact_score.raw_volatility
             = VolatilityGiven(compute_traffic_volatility(travel.traffic_index,
                                                          departure), mult)
        /\ legs[i].impact_score.raw_heat
             = RoundDiv(compute_heat_impact(a.city, a.date.month, arrival, attr), 10)
        /\ legs[i].impact_score.raw_crowd = compute_crowd_factor(attr, arrival)

HoursHold(legs, a) ==
    \A i \in 1..Len(legs) :
        LegHours(legs, a, i, LegOrigin(legs, a, i),
                 attractions_by_id[legs[i].attraction_id])

\* C21: for every leg of a timeline, the heat impact and the crowd factor
\* are those of the hour in which the visit starts, the travel estimate and
\* the traffic volatility those of the hour in which the travel starts.
C21_EachSignalItsHour ==
    /\ (sim_out # Nothing /\ via = "sim") => HoursHold(sim_out[1].legs, args[1])
    /\ (pc = "loop" /\ via # "sim") => HoursHold(best_legs, args[1])

\* leg i's travel crosses an hour boundary and the volatility of the hour of
\* its start is not that of the hour of its end
VolatilityTellsTheHours(legs, a, i, o, attr) ==
    LET departure == HourOf(legs[i].travel_start)
        arrival == HourOf(legs[i].visit_start)
        index == TravelAt(o, attr, a, departure).traffic_index
    IN  /\ departure # arrival
        /\ compute_traffic_volatility(index, departure)
             # compute_traffic_volatility(index, arrival)

\* leg i's travel crosses an hour boundary and the heat impact or the crowd
\* factor of the hour of its end is not that of the hour of its start
VisitTellsTheHours(legs, a, i, attr) ==
    LET departure == HourOf(legs[i].travel_start)
        arrival == HourOf(legs[i].visit_start)
    IN  /\ departure # arrival
        /\ \/ compute_heat_impact(a.city, a.date.month, departure, attr)
                # compute_heat_impact(a.city, a.date.month, arrival, attr)
           \/ compute_crowd_factor(attr, departure) # compute_crowd_factor(attr, arrival)

\* a timeline with a leg that is of both kinds
C21_Witness ==
    /\ sim_out # Nothing
    /\ via = "sim"
    /\ \E i \in 1..Len(sim_out[1].legs) :
          /\ VolatilityTellsTheHours(sim_out[1].legs, args[1], i,
                                     LegOrigin(sim_out[1].legs, args[1], i),
                                     attractions_by_id[sim_out[1].legs[i].attraction_id])
          /\ VisitTellsTheHours(sim_out[1].legs, args[1], i,
                                attractions_by_id[sim_out[1].legs[i].attraction_id])

\* the traffic intensity and the volatility (1e-5) the scorer must be given
\* for a travel index and a volatility in 1e-3 and a multiplier in 1e-2
IntensityGiven(index, mult) ==
    IF mult > 100 THEN Min(index * mult, 100000) ELSE index * 100

VolatilityBoosted(vol, mult) ==
    IF mult > 100 THEN Min(vol * 120, 100000) ELSE vol * 100

\* the score of leg i was computed from the intensity and the volatility
\* the event multiplier of its destination zone prescribes
LegBoost(legs, a, i, o, attr) ==
    LET departure == HourOf(legs[i].travel_start)
        travel == TravelAt(o, attr, a, departure)
        mult == get_event_congestion_multiplier(a.city, travel.dest_zone,
                                                DayName(a.date.weekday))
        vol == compute_traffic_volatility(travel.traffic_index, departure)
        w == WEIGHT_PROFILES(a.preference_mode)
        s == legs[i].impact_score
    IN  /\ mult >= 100
        /\ IntensityGiven(travel.traffic_index, mult) <= 100000
        /\ VolatilityBoosted(vol, mult) <= 100000
        /\ s.raw_traffic = RoundDiv(IntensityGiven(travel.traffic_index, mult), 100)
        /\ s.raw_volatility = RoundDiv(VolatilityBoosted(vol, mult), 100)
        /\ s.traffic_component
             = RoundDiv(w.traffic * IntensityGiven(travel.traffic_index, mult), 1000)
        /\ s.volatility_component
             = RoundDiv(w.volatility * VolatilityBoosted(vol, mult), 1000)
        /\ s.raw_traffic <= 1000
        /\ s.raw_volatility <= 1000

BoostHolds(legs, a) ==
    \A i \in 1..Len(legs) :
        LegBoost(legs, a, i, LegOrigin(legs, a, i),
                 attractions_by_id[legs[i].attraction_id])

\* C22: for every leg, the scorer is given min(congestion x multiplier, 1.0)
\* and min(volatility x 1.2, 1.0) when the event multiplier of the
\* destination zone on the date's weekday exceeds 1.0, the congestion and
\* the volatility themselves when it is 1.0, and never a value above 1.0.
C22_EventBoostIsCapped ==
    /\ (sim_out # Nothing /\ via = "sim") => BoostHolds(sim_out[1].legs, args[1])
    /\ (pc = "loop" /\ via # "sim") => BoostHolds(best_legs, args[1])

\* what the multiplier does to leg i: "capped" when a product exceeds 1.0,
\* "scaled" when it is boosted below the cap, "none" without an event
BoostKind(legs, a, i, o, attr) ==
    LET departure == HourOf(legs[i].travel_start)
        travel == TravelAt(o, attr, a, departure)
        mult == get_event_congestion_multiplier(a.city, travel.dest_zone,
                                                DayName(a.date.weekday))
        vol == compute_traffic_volatility(travel.traffic_index, departure)
    IN  IF mult = 100 THEN "none"
        ELSE IF travel.traffic_index * mult > 100000 /\ vol * 120 > 100000
        THEN "capped"
        ELSE IF travel.traffic_index * mult < 100000 /\ vol * 120 < 100000
        THEN "scaled"
        ELSE "mixed"

\* a timeline with a leg whose two products are cut to 1.0, and another
\* with no event at its destination
C22_Witness ==
    /\ sim_out # Nothing
    /\ via = "sim"
    /\ LET legs == sim_out[1].legs
           kinds == {BoostKind(legs, args[1], i, LegOrigin(legs, args[1], i),
                               attractions_by_id[legs[i].attraction_id]) :
                     i \in 1..Len(legs)}
       IN  {"capped", "none"} \subseteq kinds

\* min(base + 0.4 x c, 1.0) rounded to 3 decimals, for c in 1e-5: the
\* volatility of an hour for a congestion index finer than 1e-3
VolatilityOf(c5, hour) ==
    LET base6 == IF (7 <= hour /\ hour <= 9) \/ (17 <= hour /\ hour <= 20) THEN 600000
                 ELSE IF 10 <= hour /\ hour <= 16 THEN 300000
                 ELSE 150000
    IN  RoundDiv(Min(base6 + c5 * 4, 1000000), 1000)

\* the volatility recorded for leg i is the one computed from the index
\* with the event multiplier applied, taken before or after its own scaling
\* by 1.2
LegVolatilityFromBoosted(legs, a, i, o, attr) ==
    LET departure == HourOf(legs[i].travel_start)
        travel == TravelAt(o, attr, a, departure)
        mult == get_event_congestion_multiplier(a.city, travel.dest_zone,
                                                DayName(a.date.weekday))
        c == IntensityGiven(travel.traffic_index, mult)
    IN  \/ legs[i].impact_score.raw_volatility = VolatilityOf(c, departure)
        \/ legs[i].impact_score.raw_volatility
             = RoundDiv(VolatilityBoosted(VolatilityOf(c, departure), mult), 100)

\* C23: the traffic volatility of every leg is min(base + 0.4 x c, 1.0),
\* base being 0.6 in hours 7-9 and 17-20, 0.3 in hours 10-16 and 0.15
\* otherwise, and c the congestion index with the event multiplier of the
\* leg applied to it.
C23_VolatilityFromBoostedIndex ==
    (sim_out # Nothing /\ via = "sim") =>
        \A i \in 1..Len(sim_out[1].legs) :
            LegVolatilityFromBoosted(sim_out[1].legs, args[1], i,
                                     LegOrigin(sim_out[1].legs, args[1], i),
                                     attractions_by_id[sim_out[1].legs[i].attraction_id])

\* the same with c the index the travel estimate returned, and the scaling
\* by 1.2 applied when there is an event
VolatilityFromTravelIndex ==
    (sim_out # Nothing /\ via = "sim") =>
        \A i \in 1..Len(sim_out[1].legs) :
            LET legs == sim_out[1].legs
                o == LegOrigin(legs, args[1], i)
                attr == attractions_by_id[legs[i].attraction_id]
                departure == HourOf(legs[i].travel_start)
                travel == TravelAt(o, attr, args[1], departure)
                mult == get_event_congestion_multiplier(args[1].city, travel.dest_zone,
                                                        DayName(args[1].date.weekday))
            IN  legs[i].impact_score.raw_volatility
                  = RoundDiv(VolatilityBoosted(VolatilityOf(travel.traffic_index * 100,
                                                            departure), mult), 100)

\* C24: estimate_travel_time returns for every input, an unknown city and
\* missing congestion or seasonal cells included, a road distance of at
\* least 0.3 km, a congestion index of at most 1.0, an effective speed of at
\* least 70% of the city's congested speed, hence positive, and a positive
\* duration.
C24_EstimateAlwaysDefined ==
    (fn_out # Nothing /\ fn_in[1].f = "estimate") =>
        LET r == fn_out[1]
            congested == BASE_SPEEDS(Lower(fn_in[1].city)).congested
        IN  /\ r.distance_km >= 30
            /\ r.traffic_index >= 0
            /\ r.traffic_index <= 1000
            /\ r.speed_kmh >= 7 * congested
            /\ r.speed_kmh > 0
            /\ r.duration_minutes > 0
            /\ r.free_flow_minutes > 0

\* a trip from a place to itself in a city no table knows, in a month
\* without a seasonal row and at an hour outside 0..23
C24_Witness ==
    /\ fn_out # Nothing
    /\ fn_in[1].f = "estimate"
    /\ fn_in[1].city = "Atlantis"
    /\ fn_in[1].origin = fn_in[1].dest
    /\ fn_in[1].month = 1
    /\ fn_in[1].hour = 25
    /\ fn_in[1].day_type = "holiday"
    /\ fn_out[1].distance_km = 30
    /\ fn_out[1].traffic_index = 300
    /\ fn_out[1].duration_minutes > 0

\* the weight (1e-1) of the discomfort index for a point
HeatWeight(point) ==
    IF point.heat_sensitive \/ point.category = "outdoor" THEN 10
    ELSE IF point.category = "indoor" THEN 2
    ELSE 5

\* the discomfort index (1e-3) of the weather table at an hour, 0 without a row
DiscomfortAt(city, month, hour) ==
    LET w == weather_lookup(Lower(city), month, hour % 24)
    IN  IF w = Nothing THEN 0 ELSE w[1].heat_discomfort

\* C25: compute_heat_impact returns the discomfort index of the hour times
\* 1 for a point that is flagged heat-sensitive or is outdoor, 0.2 for an
\* indoor point, 0.5 for any other; hence, city, month and hour being
\* equal, an outdoor point's heat impact is never below that of an indoor
\* point without the flag, and is above it when the index is positive.
C25_HeatWeightByPoint ==
    (fn_out # Nothing /\ fn_in[1].f = "heat") =>
        LET x == fn_in[1]
            index == DiscomfortAt(x.city, x.month, x.hour)
        IN  /\ fn_out[1].at_point = index * HeatWeight(x.point)
            /\ fn_out[1].at_other = index * HeatWeight(x.other)
            /\ (x.point.category = "outdoor" /\ x.other.category = "indoor"
                /\ ~x.other.heat_sensitive) =>
                  /\ fn_out[1].at_point >= fn_out[1].at_other
                  /\ index > 0 => fn_out[1].at_point > fn_out[1].at_other

\* at a hot hour, an indoor point that is flagged against an indoor point
\* that is not: the flag gives the full index, the category a fifth of it
C25_Witness ==
    /\ fn_out # Nothing
    /\ fn_in[1].f = "heat"
    /\ fn_in[1].point = [category |-> "indoor", heat_sensitive |-> TRUE]
    /\ fn_in[1].other = [category |-> "indoor", heat_sensitive |-> FALSE]
    /\ DiscomfortAt(fn_in[1].city, fn_in[1].month, fn_in[1].hour) = 620
    /\ fn_out[1].at_point = 6200
    /\ fn_out[1].at_other = 1240

\* the aggregates of result r are those of the timeline legs
AggregatesOf(r, legs) ==
    LET n == Len(legs)
    IN  /\ r.timeline = [i \in 1..n |-> leg_to_dict(legs[i])]
        /\ r.total_impact_score
             = SumSeq([i \in 1..n |-> legs[i].impact_score.total_score])
        /\ r.total_travel_time = SumSeq([i \in 1..n |-> legs[i].travel_duration_min])
        /\ r.total_visit_time = SumSeq([i \in 1..n |-> legs[i].visit_duration_min])
        /\ r.itinerary_start = << strftime_HM(legs[1].travel_start) >>
        /\ r.itinerary_end = << strftime_HM(legs[n].visit_end) >>
        /\ r.itinerary_start = << r.timeline[1].departure_time >>
        /\ r.itinerary_end = << r.timeline[n].visit_end >>

\* the ranked summary of r: one entry per permutation, ascending, the
\* winner's score first
RankedSummary(r) ==
    /\ Len(r.all_scores) = r.permutations_evaluated
    /\ \A i \in 1..(Len(r.all_scores) - 1) :
          r.all_scores[i].total_score <= r.all_scores[i + 1].total_score
    /\ r.all_scores[1].total_score = r.total_impact_score

\* C26: in a successful result the total impact score is the sum of the
\* total scores of the winning legs, the total travel and visit times are
\* the sums of their travel and visit durations, itinerary_start is the
\* travel start of the first leg and itinerary_end the visit end of the
\* last, and all_scores has one entry per permutation evaluated, in
\* ascending order of score, the winner's score first.
C26_AggregatesOfTheWinner ==
    (Returned /\ NValid >= 1) =>
        /\ best_legs # <<>>
        /\ best_score = SumSeq([i \in 1..Len(best_legs) |->
                                   best_legs[i].impact_score.total_score])
        /\ AggregatesOf(result[1], best_legs)
        /\ RankedSummary(result[1])
        /\ Len(result[1].all_scores) = sims

\* a result of three stops whose six permutations do not all score the
\* same, with a winner that was not simulated first
C26_Witness ==
    /\ Returned
    /\ NValid = 3
    /\ Len(result[1].all_scores) = 6
    /\ result[1].all_scores[1].total_score < result[1].all_scores[6].total_score
    /\ result[1].all_scores[1].permutation # PermNames(KnownOfCall)
    /\ result[1].total_travel_time
         = result[1].timeline[1].travel_duration_min
           + result[1].timeline[2].travel_duration_min
           + result[1].timeline[3].travel_duration_min
    /\ result[1].itinerary_end = << result[1].timeline[3].visit_end >>

\* the arguments optimize() passes to the optimizer for a valid request with
\* a known id
ArgsOf(r) ==
    [start_lat |-> r.start_latitude, start_lon |-> r.start_longitude,
     attraction_ids |-> r.attraction_ids, city |-> FirstCity(r.attraction_ids)[1],
     date |-> fromisoformat(r.date)[1], start_hour |-> r.start_hour,
     preference_mode |-> r.preference_mode]

\* the body of the response a run of the optimizer produces for request r
FreshBody(r) ==
    result_to_dict(optimize_itinerary(ArgsOf(r)))
    @@ [success |-> TRUE, city |-> ArgsOf(r).city, _cached |-> FALSE]

\* the request just served was answered from the cache
ServedFromCache ==
    /\ via = "api"
    /\ pc = "idle"
    /\ api_req # Nothing
    /\ response # Nothing
    /\ response[1].status = 200
    /\ response[1].body._cached

\* the steps of the permutation loop compute optimize_itinerary: a call of
\* up to three stops returns the value of the function
LoopComputesTheFunction ==
    (Returned /\ NValid <= 3) => result[1] = optimize_itinerary(args[1])

\* C27: a response of POST /api/optimize that comes from the cache is,
\* apart from _cached, the response a run of the optimizer produces for the
\* parameters of the request that hit.
C27_HitEqualsFreshRun ==
    ServedFromCache =>
        [response[1].body EXCEPT !._cached = FALSE] = FreshBody(api_req[1])

\* a hit equals the fresh run whenever the request that hit is the request
\* that stored the entry
HitOfOwnEntryEqualsFreshRun ==
    (ServedFromCache /\ stored_by[RequestKey(api_req[1])] = api_req[1]) =>
        [response[1].body EXCEPT !._cached = FALSE] = FreshBody(api_req[1])

\* the total scores of a ranked summary
TotalsOf(scores) == [i \in 1..Len(scores) |-> scores[i].total_score]

\* C28: for a list of at most 7 distinct known ids, total_impact_score and
\* permutations_evaluated of optimize_itinerary are the same for every
\* reordering of the list, all other arguments being equal.
C28_OrderOfStopsIsImmaterial ==
    (fn_out # Nothing /\ fn_in[1].f = "optimize") =>
        /\ fn_out[1].at_ids.total_impact_score = fn_out[1].at_other.total_impact_score
        /\ fn_out[1].at_ids.permutations_evaluated
             = fn_out[1].at_other.permutations_evaluated
        /\ fn_out[1].at_ids.permutations_evaluated
             = factorial(Len(fn_in[1].a.attraction_ids))
        /\ TotalsOf(fn_out[1].at_ids.all_scores) = TotalsOf(fn_out[1].at_other.all_scores)

\* two orders of three stops, two of which tie: the routes returned differ,
\* the scores do not, and not all six permutations score the same
C28_Witness ==
    /\ fn_out # Nothing
    /\ fn_in[1].f = "optimize"
    /\ Len(fn_in[1].other) = 3
    /\ fn_in[1].other # fn_in[1].a.attraction_ids
    /\ fn_out[1].at_ids.ordered_route # fn_out[1].at_other.ordered_route
    /\ fn_out[1].at_ids.total_impact_score = fn_out[1].at_other.total_impact_score
    /\ fn_out[1].at_ids.all_scores[1].total_score
         < fn_out[1].at_ids.all_scores[6].total_score

\* leg i was estimated and scored with the day type, the weekday name and
\* the month of the date of the request
LegOfTheRequestDate(legs, a, i, o, attr) ==
    LET departure == HourOf(legs[i].travel_start)
        arrival == HourOf(legs[i].visit_start)
        travel == estimate_travel_time(o.lat, o.lon, attr.latitude, attr.longitude,
                                       a.city, departure,
                                       IF a.date.weekday >= 5 THEN "weekend" ELSE "weekday",
                                       a.date.month)
        mult == get_event_congestion_multiplier(a.city, travel.dest_zone,
                                                DayName(a.date.weekday))
    IN  /\ legs[i].travel_duration_min = travel.duration_minutes
        /\ legs[i].impact_score.raw_traffic
             = RoundDiv(IntensityGiven(travel.traffic_index, mult), 100)
        /\ legs[i].impact_score.raw_heat
             = RoundDiv(compute_heat_impact(a.city, a.date.month, arrival, attr), 10)

\* C29: in every timeline the day type, the weekday name used for the event
\* multiplier and the month are those of the request date for every leg,
\* the legs whose travel starts after the simulated clock has passed
\* midnight included.
C29_DateFixedForTheTimeline ==
    (sim_out # Nothing /\ via = "sim") =>
        \A i \in 1..Len(sim_out[1].legs) :
            LegOfTheRequestDate(sim_out[1].legs, args[1], i,
                                LegOrigin(sim_out[1].legs, args[1], i),
                                attractions_by_id[sim_out[1].legs[i].attraction_id])

\* a timeline from 22:00 on Sunday 31 August with a leg that starts after
\* midnight, for which Monday 1 September gives another congestion index
C29_Witness ==
    /\ sim_out # Nothing
    /\ via = "sim"
    /\ args[1].date.iso = "2025-08-31"
    /\ \E i \in 1..Len(sim_out[1].legs) :
          LET legs == sim_out[1].legs
              o == LegOrigin(legs, args[1], i)
              attr == attractions_by_id[legs[i].attraction_id]
              h == HourOf(legs[i].travel_start)
          IN  /\ legs[i].travel_start >= 14400
              /\ estimate_travel_time(o.lat, o.lon, attr.latitude, attr.longitude,
                                      args[1].city, h, "weekday", 9).traffic_index
                   # estimate_travel_time(o.lat, o.lon, attr.latitude, attr.longitude,
                                          args[1].city, h, "weekend", 8).traffic_index

\* how many times x occurs in the list l
Occurrences(l, x) == Cardinality({i \in 1..Len(l) : l[i] = x})

\* C30: with requests of one client inside is_allowed at the same time, at
\* most 60 requests of the client are admitted within 60 seconds, and the
\* timestamp of every request admitted less than 60 seconds ago is in the
\* client's list.
C30_LimitHoldsUnderConcurrency ==
    /\ Len(recent[ClientIp]) <= max_requests
    /\ \A i \in 1..Len(recent[ClientIp]) :
          Occurrences(ListOf(_requests, ClientIp), recent[ClientIp][i])
            >= Occurrences(recent[ClientIp], recent[ClientIp][i])

\* the first half alone: at most 60 admitted within 60 seconds
AtMostSixtyAdmitted == Len(recent[ClientIp]) <= max_requests

\* the second half alone: no admitted timestamp is missing from the list
NoTimestampLost ==
    \A i \in 1..Len(recent[ClientIp]) :
        Occurrences(ListOf(_requests, ClientIp), recent[ClientIp][i])
          >= Occurrences(recent[ClientIp], recent[ClientIp][i])

====
